---- MODULE Spec2Model ----
(***************************************************************************)
(* A model of the x86_vcpu crate (arceos-hypervisor): the Intel VMX vCPU   *)
(* (src/vmx/vcpu.rs), the per-CPU enable/disable code of both vendors      *)
(* (src/vmx/percpu.rs, src/svm/percpu.rs) and the physical-frame guards    *)
(* (src/frame.rs, src/mem.rs).                                             *)
(*                                                                         *)
(* Hardware (the VMCS launch state, the current-VMCS pointer of a logical  *)
(* CPU, VM entry and VM exit) is the environment of the code; it is        *)
(* modelled after the Intel SDM at the places where the code executes the  *)
(* instruction.                                                            *)
(***************************************************************************)
EXTENDS Integers, Sequences, FiniteSets, TLC

VARIABLES
    \* ---- VmxVcpu (src/vmx/vcpu.rs:58-76) ----
    launched,        \* VmxVcpu::launched
    pending_events,  \* VmxVcpu::pending_events, a VecDeque<(u8, Option<u32>)>
    entry,           \* VmxVcpu::entry, an Option: <<>> or <<gpa>>
    ept_root,        \* VmxVcpu::ept_root, an Option: <<>> or <<hpa>>
    vmcs,            \* the fields of the VMCS region owned by VmxVcpu::vmcs
    current_vmcs,    \* per logical CPU: the current-VMCS pointer
    pc,              \* where the vCPU's owner is: "host", "guest", "panic"
    ret,             \* the last call of the public API and what it returned
    entry_succeeded, \* history: a VM entry succeeded since new()/unbind()
    bound_cpu,       \* history: the CPU the caller last bound the vCPU on
    misuse,          \* history: the caller bound it on a second CPU
    \* ---- PerCpuState of either vendor (percpu.rs) ----
    vendor,          \* "intel" or "amd": one vendor per build
    cpu,             \* the registers and MSRs of the calling logical CPU
    percpu,          \* VmxPerCpuState / SvmPerCpuState
    hal_frames,      \* the frames the memory HAL has handed out
    pret,            \* the last PerCpuState call and what it returned
    \* ---- PhysFrame / ContiguousPhysFrames (frame.rs, mem.rs) ----
    guards,          \* the live guards
    hal_live,        \* the ranges the memory HAL has handed out
    hal_log,         \* per range: how often it was deallocated
    fret,            \* the last frame operation and what it returned
    \* ---- the guest of a VmxVcpu and the VM exits run() handles ----
    guest_regs,      \* VmxVcpu::guest_regs; a register is <<w3, w2, w1, w0>>
    guest_rip,       \* the guest RIP field of the VMCS
    guest_xcr0,      \* the guest XCR0 of VmxVcpu::xstate
    exit_ret,        \* the last VM exit and what run() made of it
    \* ---- guest memory as read_guest_memory sees it ----
    guest_pt,        \* the guest's page table: page of GVA -> guest frame
    ept,             \* the EPT of the VM: guest frame -> host frame
    \* ---- the VMX-preemption timer of the VMCS ----
    pin_ctls,        \* the pin-based VM-execution controls of the VMCS
    timer_field,     \* the VMCS field VMX_PREEMPTION_TIMER_VALUE
    timer_count,     \* the timer of the logical CPU while the guest runs
    tpc,             \* where the vCPU is: "host" or "guest"
    \* ---- the instruction length calculator ----
    dec_bytes,       \* instruction_bytes, a sequence of bytes
    dec_mode,        \* cpu_mode, a VmCpuMode
    dec_ret,         \* what calculate_instruction_length returned
    \* ---- the host CPU and a LinuxContext taken from it ----
    host_state,      \* the system registers and MSRs of the logical CPU
    linux_ctx,       \* the LinuxContext, <<>> before load_from
    ctx_ret,         \* the last LinuxContext operation
    \* ---- the world switch of a VmxVcpu (vmx_launch .. vmx_exit) ----
    cpu_gprs,        \* the 15 general registers of the logical CPU
    cpu_rsp,         \* the stack pointer of the logical CPU, in words
    ws_mem,          \* memory: the VmxVcpu's head and the host stack
    host_rsp_field,  \* the host RSP field of the VMCS
    ws_vcpu,         \* launched, and the VMCS: current, its launch state
    ws_pc,           \* "host", "guest", "failed_entry", "panic"
    ws_pre,          \* history: registers and RSP at the call of run
    ws_ret,          \* the last operation of the world-switch model
    \* ---- two VmxVcpus used from one logical CPU ----
    two_vcpus,       \* per vCPU: <<>> before new(), else <<its fields>>
    two_cur,         \* the current-VMCS pointer of the logical CPU
    two_ret,         \* the last operation on either vCPU
    \* ---- the guest of a VmxVcpu at a CR_ACCESS exit ----
    cr_regs,         \* VmxVcpu::guest_regs
    cr_vmcs,         \* guest RIP, RSP, CR0, CR4, EFER and the read shadows
    cr_ret,          \* the last CR_ACCESS exit and what handle_cr made of it
    \* ---- SvmVcpu::svm_run ----
    svm_cpu,         \* the logical CPU: GIF, RAX, the MSRs VMLOAD loads
    svm_vcpu,        \* load_save_states, guest_regs.rax and the VMCB
    svm_pc,          \* "host" or "guest"
    svm_log,         \* history: the steps of the last svm_run, in order
    svm_pre,         \* history: the MSRs of the host when svm_run began
    \* ---- GuestPageTable64 over the guest's page tables ----
    pt_tables,       \* guest memory: per table address, its entries
    pt_level,        \* GuestPageTable64::levels
    pt_unmapped,     \* the guest-physical addresses the EPT does not map
    pt_ret           \* the last query and what it returned

vcpuVars == <<launched, pending_events, entry, ept_root, vmcs, current_vmcs,
              pc, ret, entry_succeeded, bound_cpu, misuse>>
cpuVars == <<vendor, cpu, percpu, hal_frames, pret>>
frameVars == <<guards, hal_live, hal_log, fret>>
exitVars == <<guest_regs, guest_rip, guest_xcr0, exit_ret>>
memVars == <<guest_pt, ept>>
timerVars == <<pin_ctls, timer_field, timer_count, tpc>>
decVars == <<dec_bytes, dec_mode, dec_ret>>
ctxVars == <<host_state, linux_ctx, ctx_ret>>
wsVars == <<cpu_gprs, cpu_rsp, ws_mem, host_rsp_field, ws_vcpu, ws_pc,
            ws_pre, ws_ret>>
twoVars == <<two_vcpus, two_cur, two_ret>>
crVars == <<cr_regs, cr_vmcs, cr_ret>>
svmVars == <<svm_cpu, svm_vcpu, svm_pc, svm_log, svm_pre>>
ptVars == <<pt_tables, pt_level, pt_unmapped, pt_ret>>
moreVars == <<wsVars, twoVars, crVars, svmVars, ptVars>>
restVars == <<memVars, timerVars, decVars, ctxVars, moreVars>>
vars == <<vcpuVars, cpuVars, frameVars, exitVars, restVars>>
notVcpuVars == <<cpuVars, frameVars, exitVars, restVars>>
notCpuVars == <<vcpuVars, frameVars, exitVars, restVars>>
notFrameVars == <<vcpuVars, cpuVars, exitVars, restVars>>
notExitVars == <<vcpuVars, cpuVars, frameVars, restVars>>
hostVars == <<vcpuVars, cpuVars, frameVars>>
\* What the guest memory model and the timer model leave alone.
notMemVars == <<hostVars, timerVars, decVars, ctxVars, moreVars>>
notTimerVars == <<hostVars, memVars, decVars, ctxVars, moreVars>>
notDecVars == <<hostVars, exitVars, memVars, timerVars, ctxVars, moreVars>>
notCtxVars == <<hostVars, exitVars, memVars, timerVars, decVars, moreVars>>
\* The variables of the specifications above the world switch.
oldVars == <<hostVars, exitVars, memVars, timerVars, decVars, ctxVars>>

\* The parts of the crate a specification leaves alone.
IdleExitVars ==
    /\ guest_regs = <<>> /\ guest_rip = 0 /\ guest_xcr0 = <<>>
    /\ exit_ret = <<>>

IdleMemVars == guest_pt = <<>> /\ ept = <<>>

IdleTimerVars ==
    /\ pin_ctls = {} /\ timer_field = 0 /\ timer_count = 0
    /\ tpc = "idle"

IdleDecVars == dec_bytes = <<>> /\ dec_mode = "none" /\ dec_ret = <<>>

IdleCtxVars == host_state = <<>> /\ linux_ctx = <<>> /\ ctx_ret = <<>>

IdleWsVars ==
    /\ cpu_gprs = <<>> /\ cpu_rsp = 0 /\ ws_mem = <<>>
    /\ host_rsp_field = 0 /\ ws_vcpu = <<>> /\ ws_pc = "idle"
    /\ ws_pre = <<>> /\ ws_ret = <<>>

IdleTwoVars == two_vcpus = <<>> /\ two_cur = "idle" /\ two_ret = <<>>

IdleCrVars == cr_regs = <<>> /\ cr_vmcs = <<>> /\ cr_ret = <<>>

IdleSvmVars ==
    /\ svm_cpu = <<>> /\ svm_vcpu = <<>> /\ svm_pc = "idle"
    /\ svm_log = <<>> /\ svm_pre = <<>>

IdlePtVars ==
    /\ pt_tables = <<>> /\ pt_level = 0 /\ pt_unmapped = {}
    /\ pt_ret = <<>>

IdleMoreVars ==
    /\ IdleWsVars /\ IdleTwoVars /\ IdleCrVars /\ IdleSvmVars
    /\ IdlePtVars

IdleRestVars ==
    /\ IdleMemVars /\ IdleTimerVars /\ IdleDecVars /\ IdleCtxVars
    /\ IdleMoreVars

IdleOtherVars == IdleExitVars /\ IdleRestVars

(***************************************************************************)
(* Bounds of the model.                                                    *)
(***************************************************************************)
MaxQueue == 2

\* The longest queue of the specification that fills the FIFO past 8.
LongQueue == 9

\* The frames the memory HAL of the per-CPU specification can hand out.
PoolSize == 2

\* The frame specification: physical frames 0..MaxAddr, guard slots
\* 1..MaxGuards, runs of up to MaxCount frames.
MaxAddr == 3
MaxGuards == 3
MaxCount == 2

\* The exit specification: guest RIP values 0..MaxRip.
MaxRip == 3

CPUs == {"cpu0", "cpu1"}

\* One exception with an error code (vector 31 < 32) and one interrupt.
Events == {<<31, <<0>>>>, <<32, <<>>>>}

(***************************************************************************)
(* VMCS fields and the instructions that work on them.                     *)
(***************************************************************************)
NoEvent == [valid |-> FALSE, vector |-> 0, err |-> <<>>]

VmcsInit ==
    [launch_state |-> "clear", configured |-> FALSE,
     entry_intr_info |-> NoEvent, intr_window |-> FALSE,
     rflags_if |-> FALSE, interruptibility_state |-> 0]

\* VMCLEAR on logical CPU c: the launch state becomes clear and the
\* current-VMCS pointer of c, if it is this VMCS, becomes invalid.
vmclear(cur, c) == [cur EXCEPT ![c] = "invalid"]

\* VMPTRLD on logical CPU c.
vmptrld(cur, c) == [cur EXCEPT ![c] = "vmcs"]

allow_interrupt(vm) == vm.rflags_if /\ vm.interruptibility_state = 0

set_interrupt_window(vm, enable) == [vm EXCEPT !.intr_window = enable]

inject_event(vm, vector, err) ==
    [vm EXCEPT !.entry_intr_info =
        [valid |-> TRUE, vector |-> vector, err |-> err]]

\* inject_pending_events with the exception test off by one (<= 32).
inject_pending_events_le32(q, vm) ==
    IF q = <<>>
    THEN [q |-> q, vm |-> vm]
    ELSE LET event == Head(q) IN
         IF event[1] <= 32 \/ allow_interrupt(vm)
         THEN [q |-> Tail(q), vm |-> inject_event(vm, event[1], event[2])]
         ELSE [q |-> q, vm |-> set_interrupt_window(vm, TRUE)]

\* inject_pending_events popping the head without waiting for the window.
inject_pending_events_drop(q, vm) ==
    IF q = <<>>
    THEN [q |-> q, vm |-> vm]
    ELSE LET event == Head(q) IN
         IF event[1] < 32 \/ allow_interrupt(vm)
         THEN [q |-> Tail(q), vm |-> inject_event(vm, event[1], event[2])]
         ELSE [q |-> Tail(q), vm |-> set_interrupt_window(vm, TRUE)]

\* inject_pending_events letting an exception overtake a blocked interrupt.
inject_pending_events_overtake(q, vm) ==
    IF q = <<>>
    THEN [q |-> q, vm |-> vm]
    ELSE LET event == Head(q) IN
         IF event[1] < 32 \/ allow_interrupt(vm)
         THEN [q |-> Tail(q), vm |-> inject_event(vm, event[1], event[2])]
         ELSE IF Len(q) > 1 /\ q[2][1] < 32
         THEN [q |-> <<event>> \o Tail(Tail(q)),
               vm |-> inject_event(vm, q[2][1], q[2][2])]
         ELSE [q |-> q, vm |-> set_interrupt_window(vm, TRUE)]

inject_pending_events(q, vm) ==
    IF q = <<>>
    THEN [q |-> q, vm |-> vm]
    ELSE LET event == Head(q) IN
         IF event[1] < 32 \/ allow_interrupt(vm)
         THEN [q |-> Tail(q), vm |-> inject_event(vm, event[1], event[2])]
         ELSE [q |-> q, vm |-> set_interrupt_window(vm, TRUE)]

(***************************************************************************)
(* VM entry and VM exit as the hardware performs them.                     *)
(***************************************************************************)
\* VMLAUNCH needs a clear VMCS, VMRESUME a launched one, and both need the
\* controls that setup_vmcs writes: otherwise the instruction VMfails and
\* falls through to vmx_entry_failed.
VmFail(vm, instr) ==
    \/ instr = "vmlaunch" /\ vm.launch_state # "clear"
    \/ instr = "vmresume" /\ vm.launch_state # "launched"
    \/ ~vm.configured

\* A VM entry that passed every check: VMLAUNCH makes the VMCS launched.
VmEntered(vm) == [vm EXCEPT !.launch_state = "launched"]

\* A VM exit saves the guest's RFLAGS and interruptibility state and clears
\* the valid bit of the VM-entry interruption-information field.
VmExited(vm, if, blocking) ==
    [vm EXCEPT !.rflags_if = if, !.interruptibility_state = blocking,
               !.entry_intr_info.valid = FALSE]

ExitReasons == {"INTERRUPT_WINDOW", "PREEMPTION_TIMER", "HLT"}

EntryFailureReasons == {"INVALID_GUEST_STATE", "MSR_LOAD_FAIL"}

(***************************************************************************)
(* VmxVcpu: the exit handlers.                                             *)
(***************************************************************************)
builtin_vmexit_handler(vm, exit_reason) ==
    CASE exit_reason = "INTERRUPT_WINDOW" ->
            [handled |-> TRUE, vm |-> set_interrupt_window(vm, FALSE)]
      [] exit_reason = "PREEMPTION_TIMER" -> [handled |-> TRUE, vm |-> vm]
      [] OTHER -> [handled |-> FALSE, vm |-> vm]

\* What AxArchVCpu::run returns for the Option that inner_run returned.
run_result(handled, entry_failure, exit_reason) ==
    IF handled THEN "Nothing"
    ELSE IF entry_failure THEN "FailEntry"
    ELSE "Halt"

\* inner_run up to the entry instruction: the flag, the queue, the VMCS and
\* the instruction used.
inner_run_entry(l, q, vm) ==
    IF l
    THEN LET inj == inject_pending_events(q, vm) IN
         [launched |-> TRUE, q |-> inj.q, vm |-> inj.vm, instr |-> "vmresume"]
    ELSE [launched |-> TRUE, q |-> q, vm |-> vm, instr |-> "vmlaunch"]

(***************************************************************************)
(* VmxVcpu: the public operations, each called on a logical CPU c.         *)
(***************************************************************************)
\* The call, the logical CPU it was made on and its result.
Returned(op, c, val) == [op |-> op, cpu |-> c, val |-> val]

\* queue_event on a ring of fixed capacity 8 that drops what does not fit.
QueueEventBounded(ev, cap) ==
    /\ UNCHANGED notVcpuVars
    /\ pc = "host"
    /\ Len(pending_events) < cap
    /\ pending_events' = IF Len(pending_events) < 8
                          THEN Append(pending_events, ev)
                          ELSE pending_events
    /\ ret' = Returned("queue_event", "any", "Ok")
    /\ UNCHANGED <<launched, entry, ept_root, vmcs, current_vmcs, pc,
                   entry_succeeded, bound_cpu, misuse>>

QueueEvent(ev, cap) ==
    /\ UNCHANGED notVcpuVars
    /\ pc = "host"
    /\ Len(pending_events) < cap
    /\ pending_events' = Append(pending_events, ev)
    /\ ret' = Returned("queue_event", "any", "Ok")
    /\ UNCHANGED <<launched, entry, ept_root, vmcs, current_vmcs, pc,
                   entry_succeeded, bound_cpu, misuse>>

SetEntry ==
    /\ UNCHANGED notVcpuVars
    /\ pc = "host"
    /\ entry' = <<4096>>
    /\ ret' = Returned("set_entry", "any", "Ok")
    /\ UNCHANGED <<launched, pending_events, ept_root, vmcs, current_vmcs, pc,
                   entry_succeeded, bound_cpu, misuse>>

SetEptRoot ==
    /\ UNCHANGED notVcpuVars
    /\ pc = "host"
    /\ ept_root' = <<8192>>
    /\ ret' = Returned("set_ept_root", "any", "Ok")
    /\ UNCHANGED <<launched, pending_events, entry, vmcs, current_vmcs, pc,
                   entry_succeeded, bound_cpu, misuse>>

\* setup_vmcs_guest and setup_vmcs_control, as far as the modelled fields go:
\* RFLAGS = 0x2, INTERRUPTIBILITY_STATE = 0, and the primary controls are
\* written anew, without INTERRUPT_WINDOW_EXITING.
setup_vmcs_fields(vm) ==
    [vm EXCEPT !.launch_state = "clear", !.configured = TRUE,
               !.rflags_if = FALSE, !.interruptibility_state = 0,
               !.intr_window = FALSE]

Setup(c) ==
    /\ UNCHANGED notVcpuVars
    /\ pc = "host"
    /\ IF ept_root = <<>>
       THEN \* self.ept_root.unwrap()
            /\ pc' = "panic"
            /\ ret' = Returned("setup", c, "panic")
            /\ UNCHANGED <<vmcs, current_vmcs, bound_cpu, misuse>>
       ELSE /\ pc' = pc
            /\ misuse' = (misuse \/ bound_cpu \notin {"none", c})
            /\ IF entry = <<>>
               THEN \* vmclear, vmptrld, then Err(InvalidInput)
                    /\ vmcs' = [vmcs EXCEPT !.launch_state = "clear"]
                    /\ current_vmcs' = vmptrld(vmclear(current_vmcs, c), c)
                    /\ bound_cpu' = c
                    /\ ret' = Returned("setup", c, "InvalidInput")
               ELSE /\ vmcs' = setup_vmcs_fields(vmcs)
                    /\ current_vmcs' = vmclear(vmptrld(vmclear(current_vmcs, c), c), c)
                    /\ bound_cpu' = IF bound_cpu = c THEN "none" ELSE bound_cpu
                    /\ ret' = Returned("setup", c, "Ok")
    /\ UNCHANGED <<launched, pending_events, entry, ept_root, entry_succeeded>>

bind_to_current_processor(cur, c) == vmptrld(cur, c)

\* unbind_from_current_processor without its vmclear.
unbind_without_vmclear(cur, c) == cur

unbind_from_current_processor(cur, c) == vmclear(cur, c)

Bind(c) ==
    /\ UNCHANGED notVcpuVars
    /\ pc = "host"
    /\ current_vmcs' = bind_to_current_processor(current_vmcs, c)
    /\ misuse' = (misuse \/ bound_cpu \notin {"none", c})
    /\ bound_cpu' = c
    /\ ret' = Returned("bind", c, "Ok")
    /\ UNCHANGED <<launched, pending_events, entry, ept_root, vmcs, pc,
                   entry_succeeded>>

Unbind(c) ==
    /\ UNCHANGED notVcpuVars
    /\ pc = "host"
    /\ launched' = FALSE
    /\ current_vmcs' = unbind_from_current_processor(current_vmcs, c)
    /\ vmcs' = [vmcs EXCEPT !.launch_state = "clear"]
    /\ entry_succeeded' = FALSE
    /\ bound_cpu' = IF bound_cpu = c THEN "none" ELSE bound_cpu
    /\ ret' = Returned("unbind", c, "Ok")
    /\ UNCHANGED <<pending_events, entry, ept_root, pc, misuse>>

UnbindFromCurrentProcessor(c) ==
    /\ UNCHANGED notVcpuVars
    /\ pc = "host"
    /\ current_vmcs' = unbind_from_current_processor(current_vmcs, c)
    /\ vmcs' = [vmcs EXCEPT !.launch_state = "clear"]
    /\ bound_cpu' = IF bound_cpu = c THEN "none" ELSE bound_cpu
    /\ ret' = Returned("unbind_from_current_processor", c, "Ok")
    /\ UNCHANGED <<launched, pending_events, entry, ept_root, pc,
                   entry_succeeded, misuse>>

\* run() from its call to the entry instruction.  Without a current VMCS
\* the first vmread/vmwrite (or the entry instruction) VMfails and the
\* unwrap() (or vmx_entry_failed) panics.  A VM entry that fails its
\* guest-state checks comes back at once as an exit with the entry-failure
\* bit; it leaves the launch state and the injection field as they were.
RunEntry(c) ==
    /\ UNCHANGED notVcpuVars
    /\ pc = "host"
    /\ UNCHANGED <<entry, ept_root, current_vmcs, bound_cpu, misuse>>
    /\ IF current_vmcs[c] # "vmcs"
       THEN /\ launched' = TRUE
            /\ pc' = "panic"
            /\ ret' = Returned("run", c, "panic")
            /\ UNCHANGED <<pending_events, vmcs, entry_succeeded>>
       ELSE LET r == inner_run_entry(launched, pending_events, vmcs) IN
            /\ launched' = r.launched
            /\ pending_events' = r.q
            /\ IF VmFail(r.vm, r.instr)
               THEN /\ vmcs' = r.vm
                    /\ pc' = "panic"
                    /\ ret' = Returned("run", c, "panic")
                    /\ UNCHANGED entry_succeeded
               ELSE \E guest_state_ok \in BOOLEAN :
                      IF guest_state_ok
                      THEN /\ vmcs' = VmEntered(r.vm)
                           /\ pc' = "guest"
                           /\ entry_succeeded' = TRUE
                           /\ ret' = Returned("run", c, "entered")
                      ELSE \E reason \in EntryFailureReasons :
                           LET h == builtin_vmexit_handler(r.vm, reason) IN
                           /\ vmcs' = h.vm
                           /\ pc' = "host"
                           /\ ret' = Returned("run", c, run_result(h.handled, TRUE, reason))
                           /\ UNCHANGED entry_succeeded

\* The VM exit that ends the guest's run, and run() from there to its
\* return.  An interrupt-window exit happens only with the control set, at
\* an instruction boundary with RFLAGS.IF = 1 and nothing blocking.
VmExit(reason, if, blocking) ==
    /\ UNCHANGED notVcpuVars
    /\ pc = "guest"
    /\ reason = "INTERRUPT_WINDOW" => (vmcs.intr_window /\ if /\ blocking = 0)
    /\ LET h == builtin_vmexit_handler(VmExited(vmcs, if, blocking), reason) IN
       /\ vmcs' = h.vm
       /\ ret' = Returned("run", ret.cpu, run_result(h.handled, FALSE, reason))
    /\ pc' = "host"
    /\ UNCHANGED <<launched, pending_events, entry, ept_root, current_vmcs,
                   entry_succeeded, bound_cpu, misuse>>

(***************************************************************************)
(* The specification of the VMX vCPU.                                      *)
(***************************************************************************)
IdleCpuVars ==
    /\ vendor = "none" /\ cpu = <<>> /\ percpu = <<>>
    /\ hal_frames = {} /\ pret = <<>>

IdleFrameVars ==
    /\ guards = <<>> /\ hal_live = {} /\ hal_log = {} /\ fret = <<>>

\* VmxVcpu::new
InitVcpu ==
    /\ launched = FALSE
    /\ pending_events = <<>>
    /\ entry = <<>>
    /\ ept_root = <<>>
    /\ vmcs = VmcsInit
    /\ current_vmcs = [c \in CPUs |-> "invalid"]
    /\ pc = "host"
    /\ ret = Returned("new", "any", "Ok")
    /\ entry_succeeded = FALSE
    /\ bound_cpu = "none"
    /\ misuse = FALSE

Init == InitVcpu /\ IdleCpuVars /\ IdleFrameVars /\ IdleOtherVars

Next ==
    \/ \E ev \in Events : QueueEvent(ev, MaxQueue)
    \/ SetEntry
    \/ SetEptRoot
    \/ \E c \in CPUs : Setup(c)
    \/ \E c \in CPUs : Bind(c)
    \/ \E c \in CPUs : Unbind(c)
    \/ \E c \in CPUs : UnbindFromCurrentProcessor(c)
    \/ \E c \in CPUs : RunEntry(c)
    \/ \E reason \in ExitReasons, if \in BOOLEAN, blocking \in 0..1 :
          VmExit(reason, if, blocking)

Spec == Init /\ [][Next]_vars

\* The vCPU used from one logical CPU, with one kind of event and a long
\* queue: the specification of the FIFO's length.
NextQueue ==
    \/ QueueEvent(<<32, <<>>>>, LongQueue)
    \/ SetEntry
    \/ SetEptRoot
    \/ Setup("cpu0")
    \/ Bind("cpu0")
    \/ Unbind("cpu0")
    \/ RunEntry("cpu0")
    \/ \E reason \in ExitReasons, if \in BOOLEAN :
          VmExit(reason, if, 0)

SpecQueue == Init /\ [][NextQueue]_vars

(***************************************************************************)
(* Claims about the VMX vCPU.                                              *)
(***************************************************************************)
\* A step of run() that executes the entry instruction without a VMfail:
\* the guest is entered, or the entry fails its guest-state checks.
EntryStep ==
    /\ pc = "host"
    /\ ret'.op = "run"
    /\ ret'.val \in {"entered", "FailEntry"}

Injected(ev) == [valid |-> TRUE, vector |-> ev[1], err |-> ev[2]]

\* What the claims C1 and C2 say an entry does with the head of the FIFO.
HeadHandled ==
    LET ev == Head(pending_events) IN
    IF ev[1] < 32 \/ allow_interrupt(vmcs)
    THEN /\ vmcs'.entry_intr_info = Injected(ev)
         /\ pending_events' = Tail(pending_events)
    ELSE /\ vmcs'.intr_window
         /\ pending_events' = pending_events

\* C1 as stated: at every VM entry with a non-empty FIFO the head is either
\* injected and popped (vector < 32 or allow_interrupt) or deferred with the
\* interrupt-window control set and the FIFO unchanged.
C1_EveryEntryHandlesHead ==
    [][(EntryStep /\ pending_events # <<>>) => HeadHandled]_vars

\* C1 as amended: that holds at every VM entry made with launched = true; at
\* an entry with launched = false (the first after new() or unbind()) the
\* FIFO, the injection field and the interrupt-window control stay as they
\* are.
C1_LaunchedEntryHandlesHead ==
    [][(EntryStep /\ pending_events # <<>>) =>
          IF launched
          THEN HeadHandled
          ELSE /\ pending_events' = pending_events
               /\ vmcs'.entry_intr_info = vmcs.entry_intr_info
               /\ vmcs'.intr_window = vmcs.intr_window]_vars

\* The guest runs with the interrupt 32 injected while an event is still
\* queued behind it.
C1_Witness ==
    /\ pc = "guest"
    /\ vmcs.entry_intr_info = Injected(<<32, <<>>>>)
    /\ pending_events # <<>>

\* An interrupt is at the head of the FIFO, was deferred (the window control
\* is set) and the guest now accepts interrupts.
DeferredNowAllowed ==
    /\ pending_events # <<>>
    /\ Head(pending_events)[1] >= 32
    /\ vmcs.intr_window
    /\ allow_interrupt(vmcs)

\* No event leaves the FIFO without being written to the injection field.
PopIsInjection ==
    Len(pending_events') < Len(pending_events) =>
        /\ pending_events' = Tail(pending_events)
        /\ vmcs'.entry_intr_info = Injected(Head(pending_events))

C24_StrictFifo ==
    [][/\ pending_events' # pending_events =>
             \/ \E ev \in Events : pending_events' = Append(pending_events, ev)
             \/ /\ pending_events # <<>>
                /\ pending_events' = Tail(pending_events)
                /\ vmcs'.entry_intr_info = Injected(Head(pending_events))
       /\ (vmcs'.entry_intr_info # vmcs.entry_intr_info
              /\ vmcs'.entry_intr_info.valid) =>
             /\ pending_events # <<>>
             /\ vmcs'.entry_intr_info = Injected(Head(pending_events))
             /\ pending_events' = Tail(pending_events)
       /\ (EntryStep /\ pending_events # <<>>
              /\ Head(pending_events)[1] >= 32 /\ ~allow_interrupt(vmcs)) =>
             /\ pending_events' = pending_events
             /\ vmcs'.entry_intr_info = vmcs.entry_intr_info]_vars

\* The guest was resumed with a blocked interrupt deferred at the head of
\* the queue and an exception waiting behind it, nothing injected.
C24_Witness ==
    /\ pc = "guest" /\ launched /\ ret.op = "run"
    /\ pending_events = <<<<32, <<>>>>, <<31, <<0>>>>>>
    /\ vmcs.intr_window
    /\ ~vmcs.entry_intr_info.valid

\* C3: launched is false as long as no VM entry has succeeded since new()
\* or the last unbind(), and true from a successful entry to the next
\* unbind().
C3_LaunchedIffEntrySucceeded ==
    pc # "panic" => (launched <=> entry_succeeded)

\* C15: setup() before set_ept_root() or before set_entry() returns
\* InvalidInput without panicking and leaves the vCPU unconfigured and bound
\* to no logical CPU.
C15_SetupMisuseIsInvalidInput ==
    [][(ret'.op = "setup" /\ ret' # ret /\ (ept_root = <<>> \/ entry = <<>>))
        => /\ ret'.val = "InvalidInput"
           /\ pc' # "panic"
           /\ ~vmcs'.configured
           /\ current_vmcs'[ret'.cpu] # "vmcs"]_vars

\* C22: whenever run() enters the guest with its VMCS current and set up, the
\* entry instruction matches the launch state of the VMCS: vmlaunch exactly
\* when it is clear, vmresume exactly when it is launched, so that no entry
\* VMfails.
C22_EntryMatchesLaunchState ==
    [][(/\ pc = "host" /\ ret'.op = "run"
        /\ current_vmcs[ret'.cpu] = "vmcs" /\ vmcs.configured)
        => LET instr == inner_run_entry(launched, pending_events, vmcs).instr
           IN  /\ instr = "vmlaunch" <=> vmcs.launch_state = "clear"
               /\ instr = "vmresume" <=> vmcs.launch_state = "launched"
               /\ ret'.val # "panic"]_vars

BoundOn == {c \in CPUs : current_vmcs[c] = "vmcs"}

\* C4 as stated: whatever bind(), unbind() and run() calls are made on
\* whatever logical CPUs, the VMCS is current on at most one of them.
C4_AtMostOneCpu == Cardinality(BoundOn) <= 1

\* C4 as amended: the VMCS is current on no CPU but the one the caller bound
\* the vCPU on, hence on at most one, as long as the caller never issues
\* bind() or setup() on one CPU while the vCPU is bound on another; the code
\* itself does not check this.
C4_AtMostOneCpuIfSerialized ==
    ~misuse => /\ BoundOn \subseteq {bound_cpu}
               /\ Cardinality(BoundOn) <= 1

\* The vCPU was moved by unbind() and bind() and runs on cpu1.
C4_Witness ==
    /\ ~misuse
    /\ pc = "guest"
    /\ ret.cpu = "cpu1"
    /\ BoundOn = {"cpu1"}

\* The initial capacity of the FIFO.
FifoCapacity == 8

C10_FailEntryThenRunAgain ==
    [][(/\ pc = "host"
        /\ ret.op = "run" /\ ret.val = "FailEntry"
        /\ ret'.op = "run" /\ ret'.cpu = ret.cpu
        /\ current_vmcs[ret.cpu] = "vmcs") => ret'.val # "panic"]_vars

(***************************************************************************)
(* PerCpuState: bringing the calling logical CPU into and out of VMX / SVM *)
(* operation.  A register is the set of its bits that are 1; "RSVD" stands *)
(* for the reserved upper bits of the 64-bit value, which are 0 in the     *)
(* register and in both fixed-bit MSRs.                                    *)
(***************************************************************************)
Cr0Bits == {"PE", "NE", "RSVD"}
Cr4Bits == {"VMXE", "OSXSAVE", "RSVD"}

PoolFrames == 1..PoolSize

\* IA32_VMX_BASIC as VmxBasic::read decodes it: one value that passes the
\* checks of hardware_enable and one per check that it fails.
VmxBasicGood ==
    [region_size |-> 4096, mem_type |-> 6, is_32bit_address |-> FALSE,
     io_exit_info |-> TRUE, vmx_flex_controls |-> TRUE, revision_id |-> 4]

VmxBasicSamples ==
    {VmxBasicGood,
     [VmxBasicGood EXCEPT !.region_size = 8192],
     [VmxBasicGood EXCEPT !.mem_type = 0],
     [VmxBasicGood EXCEPT !.is_32bit_address = TRUE],
     [VmxBasicGood EXCEPT !.io_exit_info = FALSE],
     [VmxBasicGood EXCEPT !.vmx_flex_controls = FALSE]}

\* What the SDM asks of CR0 and CR4 in VMX operation: every bit of FIXED0 is
\* 1 and every bit outside FIXED1 is 0.  VMXON raises #GP otherwise.
SatisfiesFixed(value, fixed0, fixed1) ==
    fixed0 \subseteq value /\ value \subseteq fixed1

\* The macro cr_is_valid!: `(!fixed0 | value != 0) && (fixed1 | !value != 0)`,
\* where `|` binds tighter than `!=`.
cr_is_valid(value, fixed0, fixed1, bits) ==
    /\ ((bits \ fixed0) \cup value) # {}
    /\ (fixed1 \cup (bits \ value)) # {}

\* xstate::enable_xsave
enable_xsave(cp) ==
    IF cp.xsave THEN [cp EXCEPT !.cr4 = @ \cup {"OSXSAVE"}] ELSE cp

\* Dropping a PhysFrame guard, an Option of a frame: <<>> or <<frame>>.
drop_frame(frames, guard) ==
    IF guard = <<>> THEN frames ELSE frames \ {guard[1]}

\* VmxRegion::uninit and VmxRegion::new (vmx/structs.rs): the guard of the
\* 4 KiB page behind a VMXON region, None or the frame the HAL answered.
VmxRegion_uninit == <<>>

VmxRegion_new(revision_id, answer) == answer

Outcome(cp, st, frames, val) ==
    [cpu |-> cp, percpu |-> st, frames |-> frames, val |-> val]

\* is_enabled of a condition the code does not test: CR4.OSXSAVE.
vmx_is_enabled_osxsave(cp) == "OSXSAVE" \in cp.cr4

vmx_is_enabled(cp) == "VMXE" \in cp.cr4

\* VmxPerCpuState::hardware_enable from the feature-control MSR on.  alloc is
\* the HAL's answer to the allocation of the VMXON region, vmxon_ok whether
\* VMXON succeeds.
vmx_enable_tail(cp, st, frames, alloc, vmxon_ok) ==
    LET locked == "LOCKED" \in cp.feature_control
        vmxon_outside == "VMXON_ENABLED_OUTSIDE_SMX" \in cp.feature_control
        cp1 == IF ~locked
               THEN [cp EXCEPT !.feature_control =
                        @ \cup {"LOCKED", "VMXON_ENABLED_OUTSIDE_SMX"}]
               ELSE cp
        basic == cp.vmx_basic
        st1 == [st EXCEPT !.vmcs_revision_id = basic.revision_id]
        st2 == [st1 EXCEPT !.vmx_region =
                  VmxRegion_new(st1.vmcs_revision_id, alloc)]
        frames2 == drop_frame(frames \cup {alloc[1]}, st.vmx_region)
        cp2 == [cp1 EXCEPT !.cr4 = @ \cup {"VMXE"}]
    IN
    IF locked /\ ~vmxon_outside THEN Outcome(cp, st, frames, "Unsupported")
    ELSE IF ~cr_is_valid(cp1.cr0, cp1.fixed0_cr0, cp1.fixed1_cr0, Cr0Bits)
    THEN Outcome(cp1, st, frames, "BadState")
    ELSE IF ~cr_is_valid(cp1.cr4, cp1.fixed0_cr4, cp1.fixed1_cr4, Cr4Bits)
    THEN Outcome(cp1, st, frames, "BadState")
    ELSE IF \/ basic.region_size # 4096
            \/ basic.mem_type # 6
            \/ basic.is_32bit_address
            \/ ~basic.io_exit_info
            \/ ~basic.vmx_flex_controls
    THEN Outcome(cp1, st, frames, "Unsupported")
    ELSE IF alloc = <<>> THEN Outcome(cp1, st1, frames, "NoMemory")
    ELSE IF \/ ~SatisfiesFixed(cp2.cr0, cp2.fixed0_cr0, cp2.fixed1_cr0)
            \/ ~SatisfiesFixed(cp2.cr4, cp2.fixed0_cr4, cp2.fixed1_cr4)
    THEN Outcome([cp2 EXCEPT !.fault = "#GP"], st2, frames2, "fault")
    ELSE IF ~vmxon_ok THEN Outcome(cp2, st2, frames2, "BadState")
    ELSE Outcome([cp2 EXCEPT !.vmx_on = TRUE], st2, frames2, "Ok")

vmx_hardware_enable(cp, st, frames, alloc, vmxon_ok) ==
    IF ~cp.supported THEN Outcome(cp, st, frames, "Unsupported")
    ELSE IF vmx_is_enabled(cp) THEN Outcome(cp, st, frames, "ResourceBusy")
    ELSE vmx_enable_tail(enable_xsave(cp), st, frames, alloc, vmxon_ok)

\* VmxPerCpuState::hardware_disable.  VMXOFF outside VMX operation is #UD.
vmx_hardware_disable(cp, st, frames, vmxoff_ok) ==
    IF ~vmx_is_enabled(cp) THEN Outcome(cp, st, frames, "BadState")
    ELSE IF ~cp.vmx_on
    THEN Outcome([cp EXCEPT !.fault = "#UD"], st, frames, "fault")
    ELSE IF ~vmxoff_ok THEN Outcome(cp, st, frames, "BadState")
    ELSE Outcome([cp EXCEPT !.vmx_on = FALSE, !.cr4 = @ \ {"VMXE"}],
                 [st EXCEPT !.vmx_region = VmxRegion_uninit],
                 drop_frame(frames, st.vmx_region), "Ok")

svm_is_enabled(cp) == cp.efer_svme

\* SvmPerCpuState::hardware_enable
svm_hardware_enable(cp, st, frames, alloc) ==
    IF ~cp.supported THEN Outcome(cp, st, frames, "Unsupported")
    ELSE IF svm_is_enabled(cp) THEN Outcome(cp, st, frames, "ResourceBusy")
    ELSE LET cp1 == enable_xsave(cp) IN
         IF alloc = <<>> THEN Outcome(cp1, st, frames, "NoMemory")
         ELSE Outcome([cp1 EXCEPT !.vm_hsave_pa = alloc[1], !.efer_svme = TRUE],
                      [st EXCEPT !.hsave_page = alloc],
                      drop_frame(frames \cup {alloc[1]}, st.hsave_page), "Ok")

\* SvmPerCpuState::hardware_disable
svm_hardware_disable(cp, st, frames) ==
    IF ~svm_is_enabled(cp) THEN Outcome(cp, st, frames, "BadState")
    ELSE Outcome([cp EXCEPT !.efer_svme = FALSE, !.vm_hsave_pa = 0],
                 st, frames, "Ok")

\* The HAL's possible answers to alloc_frame: None, or a frame not handed out.
AllocAnswers(frames) == {<<>>} \cup {<<f>> : f \in PoolFrames \ frames}

Took(o, op) ==
    /\ cpu' = o.cpu
    /\ percpu' = o.percpu
    /\ hal_frames' = o.frames
    /\ pret' = [op |-> op, val |-> o.val]
    /\ UNCHANGED <<vendor, notCpuVars>>

VmxHardwareEnable ==
    /\ vendor = "intel" /\ cpu.fault = "none"
    /\ \E alloc \in AllocAnswers(hal_frames), vmxon_ok \in BOOLEAN :
          Took(vmx_hardware_enable(cpu, percpu, hal_frames, alloc, vmxon_ok),
               "hardware_enable")

VmxHardwareDisable ==
    /\ vendor = "intel" /\ cpu.fault = "none"
    /\ \E vmxoff_ok \in BOOLEAN :
          Took(vmx_hardware_disable(cpu, percpu, hal_frames, vmxoff_ok),
               "hardware_disable")

SvmHardwareEnable ==
    /\ vendor = "amd" /\ cpu.fault = "none"
    /\ \E alloc \in AllocAnswers(hal_frames) :
          Took(svm_hardware_enable(cpu, percpu, hal_frames, alloc),
               "hardware_enable")

SvmHardwareDisable ==
    /\ vendor = "amd" /\ cpu.fault = "none"
    /\ Took(svm_hardware_disable(cpu, percpu, hal_frames), "hardware_disable")

IdleVcpuVars ==
    /\ launched = FALSE /\ pending_events = <<>> /\ entry = <<>>
    /\ ept_root = <<>> /\ vmcs = <<>> /\ current_vmcs = <<>> /\ pc = "idle"
    /\ ret = <<>> /\ entry_succeeded = FALSE /\ bound_cpu = "none"
    /\ misuse = FALSE

\* The logical CPU as hardware_enable may find it.  VMX may have been left
\* on by whoever ran before (CR4.VMXE set, in VMX operation); CR4.OSXSAVE is
\* set only where XSAVE exists; FIXED0 is within FIXED1.
InitIntelCpu ==
    \E sup \in BOOLEAN, xs \in BOOLEAN, on \in BOOLEAN,
       c0 \in SUBSET {"PE", "NE"}, osx \in BOOLEAN,
       fc \in SUBSET {"LOCKED", "VMXON_ENABLED_OUTSIDE_SMX"},
       f0 \in SUBSET {"PE", "NE"}, f1 \in SUBSET {"PE", "NE"},
       g0 \in SUBSET {"VMXE"}, basic \in VmxBasicSamples :
       /\ f0 \subseteq f1
       /\ on => sup
       /\ osx => xs
       /\ ~sup => (c0 = {} /\ fc = {} /\ f0 = {} /\ f1 = {} /\ g0 = {}
                   /\ basic = VmxBasicGood /\ ~xs)
       /\ cpu = [supported |-> sup, xsave |-> xs, cr0 |-> c0,
                 cr4 |-> (IF on THEN {"VMXE"} ELSE {})
                         \cup (IF osx THEN {"OSXSAVE"} ELSE {}),
                 feature_control |-> fc,
                 fixed0_cr0 |-> f0, fixed1_cr0 |-> f1,
                 fixed0_cr4 |-> g0,
                 fixed1_cr4 |-> {"VMXE"} \cup (IF xs THEN {"OSXSAVE"} ELSE {}),
                 vmx_basic |-> basic, vmx_on |-> on, fault |-> "none"]

InitAmdCpu ==
    \E sup \in BOOLEAN, xs \in BOOLEAN, on \in BOOLEAN, osx \in BOOLEAN :
       /\ on => sup
       /\ osx => xs
       /\ cpu = [supported |-> sup, xsave |-> xs,
                 cr4 |-> IF osx THEN {"OSXSAVE"} ELSE {},
                 efer_svme |-> on, vm_hsave_pa |-> 0, fault |-> "none"]

\* AxArchPerCpu::new of either vendor
InitPerCpu ==
    /\ vendor \in {"intel", "amd"}
    /\ IF vendor = "intel"
       THEN /\ InitIntelCpu
            /\ percpu = [vmcs_revision_id |-> 0, vmx_region |-> VmxRegion_uninit]
       ELSE /\ InitAmdCpu
            /\ percpu = [hsave_page |-> <<>>]
    /\ hal_frames = {}
    /\ pret = [op |-> "new", val |-> "Ok"]
    /\ IdleVcpuVars /\ IdleFrameVars /\ IdleOtherVars

NextPerCpu ==
    \/ VmxHardwareEnable
    \/ VmxHardwareDisable
    \/ SvmHardwareEnable
    \/ SvmHardwareDisable

SpecPerCpu == InitPerCpu /\ [][NextPerCpu]_vars

(***************************************************************************)
(* PhysFrame and ContiguousPhysFrames: RAII guards over frames of the      *)
(* memory HAL.  hal_live is the set of runs the HAL has handed out and not *)
(* got back; hal_log collects every dealloc call that names a run the HAL  *)
(* does not have handed out.  guards[g] is <<>> while slot g holds no      *)
(* guard and <<guard>> while it holds one.                                 *)
(***************************************************************************)
FrameAddrs == 0..MaxAddr
GuardSlots == 1..MaxGuards

Run(start, count) == start..(start + count - 1)

HandedOut(live) == UNION {Run(r.start, r.count) : r \in live}

\* H::alloc_frame: None, or any frame not handed out.
AllocFrameAnswers(live) ==
    {<<>>} \cup {<<a>> : a \in FrameAddrs \ HandedOut(live)}

\* H::alloc_contiguous_frames: None, or the start of any run of frame_count
\* frames not handed out.  The HAL has no run of zero frames to hand out.
AllocContiguousAnswers(live, frame_count) ==
    {<<>>} \cup {<<a>> : a \in {b \in FrameAddrs :
                        /\ frame_count > 0
                        /\ Run(b, frame_count) \subseteq FrameAddrs
                        /\ Run(b, frame_count) \cap HandedOut(live) = {}}}

\* H::dealloc_frame / H::dealloc_contiguous_frames
hal_dealloc(live, log, start, count) ==
    LET r == [start |-> start, count |-> count] IN
    IF r \in live THEN [live |-> live \ {r}, log |-> log]
    ELSE [live |-> live, log |-> log \cup {r}]

\* A drop that forgets the frame.
PhysFrame_drop_leak(live, log, guard) == [live |-> live, log |-> log]

\* impl Drop for PhysFrame
PhysFrame_drop(live, log, guard) ==
    IF guard.start_paddr # <<>>
    THEN hal_dealloc(live, log, guard.start_paddr[1], 1)
    ELSE [live |-> live, log |-> log]

\* impl Drop for ContiguousPhysFrames
ContiguousPhysFrames_drop(live, log, guard) ==
    IF guard.start_paddr # <<>>
    THEN hal_dealloc(live, log, guard.start_paddr[1], guard.frame_count)
    ELSE [live |-> live, log |-> log]

FrameRunning == fret.val # "panic"

FrameReturned(op, g, val) == [op |-> op, guard |-> g, val |-> val]

\* PhysFrame::alloc (frame.rs and mem.rs) into the free slot g.
PhysFrameAlloc(g, answer) ==
    /\ UNCHANGED notFrameVars /\ FrameRunning
    /\ guards[g] = <<>>
    /\ answer \in AllocFrameAnswers(hal_live)
    /\ UNCHANGED hal_log
    /\ IF answer = <<>>
       THEN /\ fret' = FrameReturned("alloc", g, "NoMemory")
            /\ UNCHANGED <<guards, hal_live>>
       ELSE /\ hal_live' = hal_live \cup {[start |-> answer[1], count |-> 1]}
            /\ IF answer[1] = 0
               THEN /\ fret' = FrameReturned("alloc", g, "panic")
                    /\ UNCHANGED guards
               ELSE /\ fret' = FrameReturned("alloc", g, "Ok")
                    /\ guards' = [guards EXCEPT ![g] =
                          <<[type |-> "PhysFrame", start_paddr |-> answer]>>]

\* PhysFrame::uninit
PhysFrameUninit(g) ==
    /\ UNCHANGED notFrameVars /\ FrameRunning
    /\ guards[g] = <<>>
    /\ guards' = [guards EXCEPT ![g] =
                     <<[type |-> "PhysFrame", start_paddr |-> <<>>]>>]
    /\ fret' = FrameReturned("uninit", g, "Ok")
    /\ UNCHANGED <<hal_live, hal_log>>

Dropped(g, after, guard) ==
    /\ guards' = [guards EXCEPT ![g] = <<>>]
    /\ hal_live' = after.live
    /\ hal_log' = after.log
    /\ fret' = FrameReturned("drop", g,
                   IF guard.start_paddr # <<>> THEN "dealloc" ELSE "nothing")

\* The guard in slot g goes out of scope.
PhysFrameDrop(g) ==
    /\ UNCHANGED notFrameVars /\ FrameRunning
    /\ guards[g] # <<>> /\ guards[g][1].type = "PhysFrame"
    /\ Dropped(g, PhysFrame_drop(hal_live, hal_log, guards[g][1]), guards[g][1])

\* ContiguousPhysFrames::alloc into the free slot g.
ContiguousAlloc(g, frame_count, answer) ==
    /\ UNCHANGED notFrameVars /\ FrameRunning
    /\ guards[g] = <<>>
    /\ answer \in AllocContiguousAnswers(hal_live, frame_count)
    /\ UNCHANGED hal_log
    /\ IF answer = <<>>
       THEN /\ fret' = FrameReturned("alloc", g, "NoMemory")
            /\ UNCHANGED <<guards, hal_live>>
       ELSE /\ hal_live' = hal_live
                   \cup {[start |-> answer[1], count |-> frame_count]}
            /\ IF answer[1] = 0
               THEN /\ fret' = FrameReturned("alloc", g, "panic")
                    /\ UNCHANGED guards
               ELSE /\ fret' = FrameReturned("alloc", g, "Ok")
                    /\ guards' = [guards EXCEPT ![g] =
                          <<[type |-> "ContiguousPhysFrames",
                             start_paddr |-> answer,
                             frame_count |-> frame_count]>>]

\* ContiguousPhysFrames::uninit
ContiguousUninit(g) ==
    /\ UNCHANGED notFrameVars /\ FrameRunning
    /\ guards[g] = <<>>
    /\ guards' = [guards EXCEPT ![g] =
                     <<[type |-> "ContiguousPhysFrames",
                        start_paddr |-> <<>>, frame_count |-> 0]>>]
    /\ fret' = FrameReturned("uninit", g, "Ok")
    /\ UNCHANGED <<hal_live, hal_log>>

ContiguousDrop(g) ==
    /\ UNCHANGED notFrameVars /\ FrameRunning
    /\ guards[g] # <<>> /\ guards[g][1].type = "ContiguousPhysFrames"
    /\ Dropped(g, ContiguousPhysFrames_drop(hal_live, hal_log, guards[g][1]),
               guards[g][1])

InitFrame ==
    /\ guards = [g \in GuardSlots |-> <<>>]
    /\ hal_live = {}
    /\ hal_log = {}
    /\ fret = FrameReturned("none", 0, "Ok")
    /\ IdleVcpuVars /\ IdleCpuVars /\ IdleOtherVars

NextFrame ==
    \/ \E g \in GuardSlots, a \in {<<>>} \cup {<<b>> : b \in FrameAddrs} :
          PhysFrameAlloc(g, a)
    \/ \E g \in GuardSlots : PhysFrameUninit(g)
    \/ \E g \in GuardSlots : PhysFrameDrop(g)
    \/ \E g \in GuardSlots, n \in 0..MaxCount,
          a \in {<<>>} \cup {<<b>> : b \in FrameAddrs} :
          ContiguousAlloc(g, n, a)
    \/ \E g \in GuardSlots : ContiguousUninit(g)
    \/ \E g \in GuardSlots : ContiguousDrop(g)

SpecFrame == InitFrame /\ [][NextFrame]_vars

(***************************************************************************)
(* Properties of PerCpuState, checked under SpecPerCpu.                    *)
(***************************************************************************)
ModeBitSet ==
    \/ vendor = "intel" /\ "VMXE" \in cpu.cr4
    \/ vendor = "amd" /\ cpu.efer_svme

\* C5: hardware_enable() on a CPU whose mode bit (CR4.VMXE on Intel,
\* EFER.SVME on AMD) is already set fails with the already-enabled error
\* (ResourceBusy) and changes nothing: no enable page is allocated, no MSR or
\* control register is written and the PerCpuState is unchanged.
C5_EnableOnEnabledCpuChangesNothing ==
    [][(ModeBitSet /\ pret'.op = "hardware_enable")
         => /\ pret'.val = "ResourceBusy"
            /\ UNCHANGED <<cpu, percpu, hal_frames>>]_vars

\* hardware_enable() has answered ResourceBusy on a CPU that an earlier
\* hardware_enable() turned on, of either vendor.
C5_Witness ==
    /\ pret = [op |-> "hardware_enable", val |-> "ResourceBusy"]
    /\ ModeBitSet
    /\ hal_frames # {}

\* The mode bit is clear, the CPU supports VMX and the BIOS has not locked
\* VMX off: hardware_enable() gets as far as the control-register check.
ReachesCrCheck ==
    /\ vendor = "intel" /\ cpu.fault = "none"
    /\ cpu.supported /\ "VMXE" \notin cpu.cr4
    /\ ~("LOCKED" \in cpu.feature_control
         /\ "VMXON_ENABLED_OUTSIDE_SMX" \notin cpu.feature_control)

\* CR0 or CR4 as hardware_enable() reads it breaks a fixed-bit mask; CR4.VMXE,
\* which hardware_enable() sets itself after the check, is left aside.
ViolatesFixedBits ==
    \/ ~SatisfiesFixed(cpu.cr0, cpu.fixed0_cr0, cpu.fixed1_cr0)
    \/ ~SatisfiesFixed(enable_xsave(cpu).cr4 \cup {"VMXE"},
                       cpu.fixed0_cr4, cpu.fixed1_cr4)

\* C6: on Intel, hardware_enable() fails with BadState and never reaches
\* vmxon (CR4.VMXE stays clear, no VMXON region is allocated) whenever host
\* CR0 or CR4 violates the IA32_VMX_CRx_FIXED0 / FIXED1 masks.
C6_BadControlRegistersRejected ==
    [][(ReachesCrCheck /\ ViolatesFixedBits /\ pret'.op = "hardware_enable")
         => /\ pret'.val = "BadState"
            /\ "VMXE" \notin cpu'.cr4
            /\ percpu' = percpu
            /\ hal_frames' = hal_frames]_vars

\* C7: after hardware_disable() returns Ok, the enable page of the preceding
\* hardware_enable() (VMXON region, HSAVE page) is back with the memory HAL.
C7_DisableReleasesEnablePage ==
    (pret.op = "hardware_disable" /\ pret.val = "Ok") => hal_frames = {}

\* The PerCpuState holds an enable page (VMXON region or HSAVE page).
HoldsEnablePage(st) ==
    IF vendor = "intel" THEN st.vmx_region # <<>> ELSE st.hsave_page # <<>>

\* C25: a hardware_enable() that returns an error on a CPU that was not
\* enabled leaves is_enabled() false and holds no enable page, so that a
\* retry is not rejected as already enabled; hardware_disable() on a CPU
\* that is not enabled fails and changes nothing.
C25_FailedEnableLeavesDisabled ==
    [][/\ (/\ ~ModeBitSet /\ ~HoldsEnablePage(percpu)
           /\ pret'.op = "hardware_enable"
           /\ pret'.val \notin {"Ok", "fault"})
            => /\ ~ModeBitSet'
               /\ ~HoldsEnablePage(percpu')
               /\ hal_frames' = hal_frames
       /\ (~ModeBitSet /\ pret'.op = "hardware_disable")
            => /\ pret'.val = "BadState"
               /\ UNCHANGED <<cpu, percpu, hal_frames>>]_vars

(***************************************************************************)
(* Properties of the frame guards, checked under SpecFrame.                *)
(***************************************************************************)
Owns(g) == guards[g] # <<>> /\ guards[g][1].start_paddr # <<>>

RunOf(g) ==
    [start |-> guards[g][1].start_paddr[1],
     count |-> IF guards[g][1].type = "PhysFrame" THEN 1
               ELSE guards[g][1].frame_count]

\* C8: over any sequence of PhysFrame / ContiguousPhysFrames allocations and
\* drops, the HAL never sees a dealloc of a run it has not handed out (so none
\* is returned twice, and an uninit() guard returns nothing), a run is handed
\* out exactly as long as the guard that got it from a successful alloc lives,
\* with its original count, and no two live guards own overlapping runs.
C8_FramesOwnedOnce ==
    /\ hal_log = {}
    /\ \A g \in GuardSlots : Owns(g) => RunOf(g) \in hal_live
    /\ \A r \in hal_live :
          r.start # 0 =>
             Cardinality({g \in GuardSlots : Owns(g) /\ RunOf(g) = r}) = 1
    /\ \A g1 \in GuardSlots, g2 \in GuardSlots :
          (g1 # g2 /\ Owns(g1) /\ Owns(g2)) =>
             Run(RunOf(g1).start, RunOf(g1).count)
                \cap Run(RunOf(g2).start, RunOf(g2).count) = {}

\* A guard that owned a run has just been dropped and its run returned, while
\* an uninit() guard and a guard that owns another run are alive.
C8_Witness ==
    /\ fret.op = "drop" /\ fret.val = "dealloc"
    /\ \E g \in GuardSlots : guards[g] # <<>> /\ ~Owns(g)
    /\ \E g \in GuardSlots : Owns(g) /\ RunOf(g).count > 1

(***************************************************************************)
(* The VM exits that run() and builtin_vmexit_handler() handle from the    *)
(* guest's registers.  A 64-bit register is the tuple <<w3, w2, w1, w0>>   *)
(* of its four 16-bit words, w0 the lowest; a 32-bit value is <<w1, w0>>.  *)
(***************************************************************************)
Zero64 == <<0, 0, 0, 0>>

\* `x as u64` of a u32, and `x as u32` of a u64.
Zext(u32) == <<0, 0, u32[1], u32[2]>>
Low32(r) == <<r[3], r[4]>>

\* Bit i (0..15) of the 16-bit word w, and w with that bit set or cleared.
WordBit(w, i) == (w \div (2 ^ i)) % 2
WithBit(w, i, on) ==
    w - WordBit(w, i) * (2 ^ i) + (IF on THEN 2 ^ i ELSE 0)

\* u32 with bit i (0..31) set or cleared: `x |= 1 << i`, `x &= !(1 << i)`.
set_bit(u32, i, on) ==
    IF i < 16 THEN <<u32[1], WithBit(u32[2], i, on)>>
    ELSE <<WithBit(u32[1], i - 16, on), u32[2]>>

\* The numbers of the bits that are 1 in a 64-bit value.
BitsOf(r) == {b \in 0..63 : WordBit(r[4 - (b \div 16)], b % 16) = 1}

QEMU_EXIT_PORT == 1540
QEMU_EXIT_MAGIC == <<0, 0, 0, 8192>>

\* AccessWidth::try_from(usize), an Option
AccessWidth_try_from(size) ==
    CASE size = 1 -> <<"Byte">>
      [] size = 2 -> <<"Word">>
      [] size = 4 -> <<"Dword">>
      [] size = 8 -> <<"Qword">>
      [] OTHER -> <<>>

\* rax.get_bits(width.bits_range())
get_bits_of_width(r, width) ==
    CASE width = "Byte" -> <<0, 0, 0, r[4] % 256>>
      [] width = "Word" -> <<0, 0, 0, r[4]>>
      [] width = "Dword" -> <<0, 0, r[3], r[4]>>
      [] OTHER -> r

\* The arm IO_INSTRUCTION of run(): the exit reason it returns.
io_exit_reason(regs, io_info) ==
    IF io_info.is_repeat \/ io_info.is_string THEN [kind |-> "Halt"]
    ELSE LET w == AccessWidth_try_from(io_info.access_size) IN
         IF w = <<>> THEN [kind |-> "Halt"]
         ELSE IF io_info.is_in
         THEN [kind |-> "IoRead", port |-> io_info.port, width |-> w[1]]
         ELSE IF /\ io_info.port = QEMU_EXIT_PORT
                 /\ w[1] = "Word"
                 /\ regs.rax = QEMU_EXIT_MAGIC
         THEN [kind |-> "SystemDown"]
         ELSE [kind |-> "IoWrite", port |-> io_info.port, width |-> w[1],
               data |-> get_bits_of_width(regs.rax, w[1])]

ExitRunning == exit_ret.val.kind # "panic"

ExitReturned(exit, val) == [op |-> "run", exit |-> exit, val |-> val]

\* VmxVcpu::advance_rip, as far as the model's RIP values go.
CanAdvance(len) == guest_rip + len <= MaxRip

\* An I/O instruction exits and run() handles it.
ExitIo(io_info, len) ==
    /\ UNCHANGED notExitVars /\ ExitRunning
    /\ CanAdvance(len)
    /\ guest_rip' = guest_rip + len
    /\ exit_ret' = ExitReturned(
          [reason |-> "IO_INSTRUCTION", exit_instruction_length |-> len,
           io |-> io_info],
          io_exit_reason(guest_regs, io_info))
    /\ UNCHANGED <<guest_regs, guest_xcr0>>

\* VmxIoExitInfo of the exits the model takes: OUT and IN of each size on
\* two ports, plain, string or string with REP.
IoInfos ==
    {i \in [port : {QEMU_EXIT_PORT, 1016}, access_size : {1, 2, 4},
            is_in : BOOLEAN, is_string : BOOLEAN, is_repeat : BOOLEAN] :
        i.is_repeat => i.is_string}

\* What the host's CPUID instruction answers (cpuid!): all zero, or a value
\* with the bits set that handle_cpuid masks.
HostCpuidSamples ==
    {[eax |-> <<0, 0>>, ebx |-> <<0, 0>>, ecx |-> <<0, 0>>, edx |-> <<0, 0>>],
     [eax |-> <<0, 128 + 3>>, ebx |-> <<0, 9>>,
      ecx |-> <<1, 32 + 4>>, edx |-> <<0, 6>>]}

VENDOR_STR == <<82, 86, 77, 82, 86, 77, 82, 86, 77, 82, 86, 77>>

\* The u32 read with the bytes in the opposite order.
vendor_regs_be(i) ==
    LET b == SubSeq(VENDOR_STR, 4 * i + 1, 4 * i + 4) IN
    <<b[2] + 256 * b[1], b[4] + 256 * b[3]>>

\* vendor_regs[i]: the i-th u32 of VENDOR_STR read in place, little-endian.
vendor_regs(i) ==
    LET b == SubSeq(VENDOR_STR, 4 * i + 1, 4 * i + 4) IN
    <<b[3] + 256 * b[4], b[1] + 256 * b[2]>>

\* The match of handle_cpuid on `regs_clone.rax as u32`.
cpuid_result(regs, host) ==
    LET function == Low32(regs.rax) IN
    CASE function = <<0, 1>> ->
           [host EXCEPT !.ecx = set_bit(set_bit(@, 5, FALSE), 31, TRUE),
                        !.eax = set_bit(@, 7, FALSE)]
      [] function = <<0, 7>> ->
           IF regs.rcx = Zero64
           THEN [host EXCEPT !.ecx = set_bit(set_bit(@, 5, FALSE), 16, FALSE)]
           ELSE host
      [] function = <<0, 13>> -> host
      [] function = <<16384, 0>> ->
           [eax |-> <<16384, 1>>, ebx |-> vendor_regs(0),
            ecx |-> vendor_regs(1), edx |-> vendor_regs(2)]
      [] function = <<16384, 1>> ->
           [eax |-> <<0, 0>>, ebx |-> <<0, 0>>, ecx |-> <<0, 0>>,
            edx |-> <<0, 0>>]
      [] function = <<0, 22>> ->
           IF host.eax = <<0, 0>> THEN [host EXCEPT !.eax = <<0, 3000>>]
           ELSE host
      [] OTHER -> host

\* VmxVcpu::handle_cpuid: the guest registers it leaves.
handle_cpuid(regs, host) ==
    LET res == cpuid_result(regs, host) IN
    [regs EXCEPT !.rax = Zext(res.eax), !.rbx = Zext(res.ebx),
                 !.rcx = Zext(res.ecx), !.rdx = Zext(res.edx)]

\* A CPUID exits; builtin_vmexit_handler handles it and run() returns Nothing.
ExitCpuid(host) ==
    /\ UNCHANGED notExitVars /\ ExitRunning
    /\ CanAdvance(2)
    /\ guest_regs' = handle_cpuid(guest_regs, host)
    /\ guest_rip' = guest_rip + 2
    /\ exit_ret' = ExitReturned(
          [reason |-> "CPUID", at |-> guest_regs], [kind |-> "Nothing"])
    /\ UNCHANGED guest_xcr0

\* The bits of Xcr0 (x86::controlregs): FPU_MMX 0, SSE 1, AVX 2, BNDREG 3,
\* BNDCSR 4, OPMASK 5, ZMM_HI256 6, HI16_ZMM 7, PKRU 9.
Xcr0Known == {0, 1, 2, 3, 4, 5, 6, 7, 9}

\* VmxVcpu::handle_xsetbv: "Unsupported", "InvalidInput", or "Ok" with the
\* value to store.
handle_xsetbv(regs) ==
    LET index == Low32(regs.rcx)
        value == <<regs.rdx[3], regs.rdx[4], regs.rax[3], regs.rax[4]>>
        x == BitsOf(value)
        rejected ==
            \/ ~(x \subseteq Xcr0Known)
            \/ 0 \notin x
            \/ (2 \in x /\ 1 \notin x)
            \/ ((4 \in x) # (3 \in x))
            \/ (5 \in x \/ 6 \in x \/ 7 \in x \/ 2 \notin x
                \/ 5 \notin x \/ 6 \notin x \/ 7 \notin x)
    IN
    IF index # <<0, 0>> THEN [res |-> "Unsupported", value |-> value]
    ELSE IF rejected THEN [res |-> "InvalidInput", value |-> value]
    ELSE [res |-> "Ok", value |-> value]

\* An XSETBV exits.  inner_run panics when the built-in handler returns Err.
ExitXsetbv ==
    /\ UNCHANGED notExitVars /\ ExitRunning
    /\ LET h == handle_xsetbv(guest_regs)
           exit == [reason |-> "XSETBV", at |-> guest_regs] IN
       IF h.res = "Ok"
       THEN /\ CanAdvance(3)
            /\ guest_xcr0' = h.value
            /\ guest_rip' = guest_rip + 3
            /\ exit_ret' = ExitReturned(exit, [kind |-> "Nothing"])
       ELSE /\ exit_ret' = ExitReturned(exit, [kind |-> "panic", err |-> h.res])
            /\ UNCHANGED <<guest_xcr0, guest_rip>>
    /\ UNCHANGED guest_regs

\* Register values the guest may hold when it exits.
RaxSamples ==
    {<<0, 0, 0, 8192>>, <<0, 0, 1, 8192>>, <<1, 0, 0, 8192>>,
     <<0, 0, 16384, 0>>, <<0, 0, 16384, 1>>, <<0, 0, 0, 22>>, <<0, 0, 0, 13>>}
    \cup {<<0, 0, 0, v>> : v \in {0, 1, 2, 3, 5, 6, 7, 11, 27, 31, 39, 227,
                                  231, 255, 263, 519}}

GuestRegs ==
    [rax : RaxSamples, rbx : {<<0, 0, 0, 5>>},
     rcx : {Zero64, <<0, 0, 0, 1>>}, rdx : {Zero64, <<0, 0, 0, 1>>},
     rsi : {<<0, 5, 0, 5>>}]

\* The guest runs: its registers and RIP become whatever it computes.
GuestRuns(regs, rip) ==
    /\ UNCHANGED notExitVars /\ ExitRunning
    /\ guest_regs' = regs
    /\ guest_rip' = rip
    /\ exit_ret' = [op |-> "guest", exit |-> [reason |-> "none"],
                    val |-> [kind |-> "running"]]
    /\ UNCHANGED guest_xcr0

InitExit ==
    /\ guest_regs \in GuestRegs
    /\ guest_rip = 0
    /\ guest_xcr0 = <<0, 0, 0, 1>>
    /\ exit_ret = [op |-> "new", exit |-> [reason |-> "none"],
                   val |-> [kind |-> "Ok"]]
    /\ IdleVcpuVars /\ IdleCpuVars /\ IdleFrameVars /\ IdleRestVars

NextExit ==
    \/ \E io_info \in IoInfos, len \in 1..2 : ExitIo(io_info, len)
    \/ \E host \in HostCpuidSamples : ExitCpuid(host)
    \/ ExitXsetbv
    \/ \E regs \in GuestRegs, rip \in 0..MaxRip : GuestRuns(regs, rip)

SpecExit == InitExit /\ [][NextExit]_vars

(***************************************************************************)
(* Properties of the exit handling, checked under SpecExit.                *)
(***************************************************************************)
\* run() has just handled the exit of a plain OUT (no string, no REP).
PlainOutStep ==
    /\ exit_ret'.op = "run"
    /\ exit_ret'.exit.reason = "IO_INSTRUCTION"
    /\ ~exit_ret'.exit.io.is_in
    /\ ~exit_ret'.exit.io.is_string
    /\ ~exit_ret'.exit.io.is_repeat

\* C11: a plain OUT to port 0x604 of width Word with AX = 0x2000, whatever
\* the other bits of RAX, makes run() return SystemDown with RIP advanced by
\* the exit instruction length; any other plain OUT yields IoWrite with RAX
\* truncated to the access width as data.
C11_QemuExitOnAx ==
    [][PlainOutStep =>
         LET io == exit_ret'.exit.io
             width == AccessWidth_try_from(io.access_size)[1] IN
         /\ guest_rip' = guest_rip + exit_ret'.exit.exit_instruction_length
         /\ IF /\ io.port = QEMU_EXIT_PORT
               /\ width = "Word"
               /\ guest_regs.rax[4] = QEMU_EXIT_MAGIC[4]
            THEN exit_ret'.val = [kind |-> "SystemDown"]
            ELSE exit_ret'.val =
                    [kind |-> "IoWrite", port |-> io.port, width |-> width,
                     data |-> get_bits_of_width(guest_regs.rax, width)]]_vars

\* The value EDX:EAX of an XSETBV, as the set of its bits.
XsetbvBits ==
    BitsOf(<<guest_regs.rdx[3], guest_regs.rdx[4],
             guest_regs.rax[3], guest_regs.rax[4]>>)

\* The validity rules of C13 for a value of XCR0.
Xcr0Valid(x) ==
    /\ 0 \in x
    /\ 2 \in x => 1 \in x
    /\ (4 \in x) <=> (3 \in x)
    /\ \/ {5, 6, 7} \cap x = {}
       \/ {5, 6, 7} \subseteq x /\ 2 \in x

\* C13: on an XSETBV exit with ECX = 0 a value that satisfies the validity
\* rules is stored as the guest XCR0 and RIP is advanced by 3; a value that
\* breaks them leaves the guest XCR0 and RIP unchanged.  (Values with a bit
\* that Xcr0 does not define are left aside.)
C13_XsetbvAcceptsExactlyValid ==
    [][(/\ exit_ret'.op = "run"
        /\ exit_ret'.exit.reason = "XSETBV"
        /\ Low32(guest_regs.rcx) = <<0, 0>>
        /\ XsetbvBits \subseteq Xcr0Known) =>
          IF Xcr0Valid(XsetbvBits)
          THEN /\ BitsOf(guest_xcr0') = XsetbvBits
               /\ guest_rip' = guest_rip + 3
          ELSE /\ guest_xcr0' = guest_xcr0
               /\ guest_rip' = guest_rip]_vars

\* run() has just handled a CPUID exit taken with EAX = 0x4000_0000.
HypervisorInfoStep ==
    /\ exit_ret'.op = "run"
    /\ exit_ret'.exit.reason = "CPUID"
    /\ Low32(guest_regs.rax) = <<16384, 0>>

\* C14 as stated: after a CPUID exit with RAX = 0x4000_0000, RAX is
\* 0x4000_0001, RBX 0x524D5652, RCX 0x4D525652, RDX 0x56524D52, every other
\* GPR is unchanged and RIP is advanced by 2.
C14_HypervisorLeafAsStated ==
    [][HypervisorInfoStep =>
         /\ guest_regs' = [guest_regs EXCEPT
                             !.rax = <<0, 0, 16384, 1>>,
                             !.rbx = <<0, 0, 21069, 22098>>,
                             !.rcx = <<0, 0, 19794, 22098>>,
                             !.rdx = <<0, 0, 22098, 19794>>]
         /\ guest_rip' = guest_rip + 2]_vars

\* C14 as amended: RAX is 0x4000_0001 and RBX, RCX, RDX are 0x524D5652,
\* 0x56524D56, 0x4D56524D, the bytes of RVMRVMRVMRVM in order, four per
\* register, lowest byte first; every other GPR is unchanged and RIP is
\* advanced by 2.
C14_HypervisorLeafPacksVendor ==
    [][HypervisorInfoStep =>
         /\ guest_regs' = [guest_regs EXCEPT
                             !.rax = <<0, 0, 16384, 1>>,
                             !.rbx = <<0, 0, 21069, 22098>>,
                             !.rcx = <<0, 0, 22098, 19798>>,
                             !.rdx = <<0, 0, 19798, 21069>>]
         /\ guest_rip' = guest_rip + 2]_vars

\* A CPUID with EAX = 0x4000_0000 (and upper RAX bits set or not) has been
\* answered.
C14_Witness ==
    /\ exit_ret.op = "run"
    /\ exit_ret.exit.reason = "CPUID"
    /\ Low32(exit_ret.exit.at.rax) = <<16384, 0>>
    /\ guest_regs.rbx = <<0, 0, 21069, 22098>>
    /\ guest_rip = 2

(***************************************************************************)
(* Guest memory (src/vmx/vcpu.rs:330-382, 834-847, src/page_table.rs).     *)
(* Pages are PageSize bytes; the guest's page table maps each of its       *)
(* NumPages virtual pages to a guest frame or to nothing, the EPT maps     *)
(* each guest frame to a host frame or to nothing.  The guest is in 64-bit *)
(* mode (gva_to_linear_addr adds a segment base of 0) and the tables of    *)
(* the walk themselves are readable, so a query fails exactly where the    *)
(* last-level entry is unused.                                             *)
(***************************************************************************)
PageSize == 2
NumPages == 2
MaxReadLen == 3

GuestPages == 0..(NumPages - 1)
GuestFrames == {0, 1}
HostFrames == {0, 1}
\* An Option: <<>> or <<frame>>.
Unmapped == <<>>
MappedTo(frames) == {<<f>> : f \in frames}

\* Host memory through the linear mapping of PagingHandler::phys_to_virt:
\* every byte differs, and the frame after the last host frame is readable.
host_memory(hpa) == 16 + hpa

\* PageSize::align_offset
align_offset(addr) == addr % PageSize

\* GuestPageTable64::query: the address the entry maps to plus the offset
\* in the page, and the page size.
GuestPageTable64_query(vaddr) ==
    LET page == vaddr \div PageSize IN
    IF page \notin GuestPages \/ guest_pt[page] = Unmapped
    THEN [ok |-> FALSE, gpa |-> 0, page_size |-> PageSize]
    ELSE [ok |-> TRUE,
          gpa |-> guest_pt[page][1] * PageSize + align_offset(vaddr),
          page_size |-> PageSize]

\* VmxVcpu::guest_page_table_query
guest_page_table_query(gva) == GuestPageTable64_query(gva)

\* EPTTranslator::guest_phys_to_host_phys
guest_phys_to_host_phys(gpa) ==
    LET frame == gpa \div PageSize IN
    IF ept[frame] = Unmapped
    THEN [ok |-> FALSE, hpa |-> 0]
    ELSE [ok |-> TRUE, hpa |-> ept[frame][1] * PageSize + align_offset(gpa)]

BadAddress == [kind |-> "BadAddress", content |-> <<>>]

Min(a, b) == IF a <= b THEN a ELSE b

\* The loop of VmxVcpu::read_guest_memory: each round queries the guest
\* page table for gva, the address the read started at.
RECURSIVE read_guest_memory_loop(_, _, _, _)
read_guest_memory_loop(gva, addr, remained_size, content) ==
    IF remained_size = 0
    THEN [kind |-> "Ok", content |-> content]
    ELSE LET q == guest_page_table_query(gva) IN
         IF ~q.ok THEN BadAddress
         ELSE LET pgoff == align_offset(addr)
                  read_size == Min(q.page_size - pgoff, remained_size)
                  h == guest_phys_to_host_phys(q.gpa)
              IN  IF ~h.ok THEN BadAddress
                  ELSE read_guest_memory_loop(gva, addr + read_size,
                          remained_size - read_size,
                          content \o [i \in 1..read_size |->
                                          host_memory(h.hpa + i - 1)])

\* VmxVcpu::read_guest_memory
read_guest_memory(gva, len) == read_guest_memory_loop(gva, gva, len, <<>>)

\* VmxVcpu::decode_instruction: the bytes are read, decoded and logged.
decode_instruction(rip, instr_len) ==
    LET bytes == read_guest_memory(rip, instr_len) IN
    IF bytes.kind = "Ok" THEN [kind |-> "Ok"] ELSE [kind |-> "BadAddress"]

\* The EPT_VIOLATION arm of run().
ept_violation_exit_reason(rip, len, fault_info) ==
    IF decode_instruction(rip, len).kind # "Ok"
    THEN [kind |-> "Err", err |-> "BadAddress"]
    ELSE [kind |-> "NestedPageFault", addr |-> fault_info.fault_guest_paddr,
          access_flags |-> fault_info.access_flags]

\* NestedPageFaultInfo of the exits the model takes.
FaultInfos == [fault_guest_paddr : {0, PageSize}, access_flags : {"R", "X"}]

\* An access of the guest violates the EPT and run() handles the exit.
ExitEptViolation(fault_info, len) ==
    /\ UNCHANGED notMemVars /\ ExitRunning
    /\ exit_ret' = ExitReturned(
          [reason |-> "EPT_VIOLATION", exit_instruction_length |-> len,
           fault |-> fault_info],
          ept_violation_exit_reason(guest_rip, len, fault_info))
    /\ UNCHANGED <<guest_regs, guest_rip, guest_xcr0, memVars>>

\* The hypervisor reads guest memory.
ReadGuestMemory(gva, len) ==
    /\ UNCHANGED notMemVars /\ ExitRunning
    /\ exit_ret' = [op |-> "read_guest_memory",
                    exit |-> [reason |-> "none", gva |-> gva, len |-> len],
                    val |-> read_guest_memory(gva, len)]
    /\ UNCHANGED <<guest_regs, guest_rip, guest_xcr0, memVars>>

\* The guest edits an entry of its page table.
GuestMaps(page, to) ==
    /\ UNCHANGED notMemVars /\ ExitRunning
    /\ guest_pt' = [guest_pt EXCEPT ![page] = to]
    /\ UNCHANGED <<exitVars, ept>>

\* The hypervisor maps or unmaps a guest frame in the EPT.
EptMaps(frame, to) ==
    /\ UNCHANGED notMemVars /\ ExitRunning
    /\ ept' = [ept EXCEPT ![frame] = to]
    /\ UNCHANGED <<exitVars, guest_pt>>

InitMem ==
    /\ guest_regs \in {r \in GuestRegs : r.rax = Zero64 /\ r.rcx = Zero64
                                           /\ r.rdx = Zero64}
    /\ guest_rip = 0
    /\ guest_xcr0 = <<0, 0, 0, 1>>
    /\ exit_ret = [op |-> "new", exit |-> [reason |-> "none"],
                   val |-> [kind |-> "Ok"]]
    /\ guest_pt \in [GuestPages -> MappedTo(GuestFrames) \cup {Unmapped}]
    /\ ept \in [GuestFrames -> MappedTo(HostFrames) \cup {Unmapped}]
    /\ IdleVcpuVars /\ IdleCpuVars /\ IdleFrameVars /\ IdleTimerVars
    /\ IdleDecVars /\ IdleCtxVars /\ IdleMoreVars

NextMem ==
    \/ \E fault_info \in FaultInfos, len \in 1..2 :
          ExitEptViolation(fault_info, len)
    \/ \E gva \in 0..(NumPages * PageSize - 1), len \in 0..MaxReadLen :
          ReadGuestMemory(gva, len)
    \/ \E page \in GuestPages, to \in MappedTo(GuestFrames) \cup {Unmapped} :
          GuestMaps(page, to)
    \/ \E frame \in GuestFrames, to \in MappedTo(HostFrames) \cup {Unmapped} :
          EptMaps(frame, to)
    \/ \E rip \in 0..MaxRip : GuestRuns(guest_regs, rip)

SpecMem == InitMem /\ [][NextMem]_vars

(***************************************************************************)
(* Properties of guest memory, checked under SpecMem.                      *)
(***************************************************************************)
\* C12: every EPT_VIOLATION exit, wherever the guest's RIP points and
\* whatever is mapped there, makes run() return Ok(NestedPageFault) with the
\* address and the access flags of the exit.
C12_EptViolationIsNestedPageFault ==
    [][(exit_ret'.op = "run" /\ exit_ret'.exit.reason = "EPT_VIOLATION")
        => exit_ret'.val = [kind |-> "NestedPageFault",
                            addr |-> exit_ret'.exit.fault.fault_guest_paddr,
                            access_flags |->
                                exit_ret'.exit.fault.access_flags]]_vars

\* The host address of the byte at a guest virtual address, through the
\* guest's page table and the EPT, or Unmapped.
Translate(va) ==
    LET q == guest_page_table_query(va) IN
    IF ~q.ok THEN Unmapped
    ELSE LET h == guest_phys_to_host_phys(q.gpa) IN
         IF ~h.ok THEN Unmapped ELSE <<h.hpa>>

\* What a read of len bytes at gva has to return.
BytesAt(gva, len) ==
    IF \E i \in 0..(len - 1) : Translate(gva + i) = Unmapped
    THEN BadAddress
    ELSE [kind |-> "Ok",
          content |-> [i \in 1..len |-> host_memory(Translate(gva + i - 1)[1])]]

\* C17: read_guest_memory(gva, len) returns the len bytes at gva..gva+len-1,
\* also where the range crosses a page boundary, and BadAddress where a page
\* of the range is unmapped in the guest's page table or in the EPT.
C17_ReadReturnsTheBytes ==
    [][(exit_ret'.op = "read_guest_memory" /\ UNCHANGED memVars)
        => exit_ret'.val = BytesAt(exit_ret'.exit.gva, exit_ret'.exit.len)]_vars

(***************************************************************************)
(* The VMX-preemption timer (src/vmx/vcpu.rs:40, 571, 624, 639-647,        *)
(* 1007, 1016-1024).  The timer counts down while the guest runs only if   *)
(* the pin-based control "activate VMX-preemption timer" is 1; it is       *)
(* loaded from the VMCS field at every VM entry, and the field is not      *)
(* written at VM exit because the exit controls of setup_vmcs_control do   *)
(* not ask to save it.  The value 1_000_000 is scaled down.                *)
(***************************************************************************)
VMX_PREEMPTION_TIMER_SET_VALUE == 3

\* What the capability MSR IA32_VMX_TRUE_PINBASED_CTLS may fix to 1 among
\* the controls of the model; Intel CPUs to date fix none of them.
PinCapabilities == {{}, {"VMX_PREEMPTION_TIMER"}}

\* vmcs::set_control: the bits the capability MSR fixes to 1 and the bits to
\* set, without the bits to clear.
set_control(must_be_one, set, clear) == (must_be_one \cup set) \ clear

\* The pin-based controls setup_vmcs_control asks for.
setup_vmcs_control_pin(must_be_one) ==
    set_control(must_be_one, {"NMI_EXITING"}, {})

\* setup_vmcs_guest writes the set value, setup_vmcs_guest_from_ctx 0.
setup_vmcs_timer_value(from_ctx) ==
    IF from_ctx THEN 0 ELSE VMX_PREEMPTION_TIMER_SET_VALUE

handle_vmx_preemption_timer == VMX_PREEMPTION_TIMER_SET_VALUE

TimerActive == "VMX_PREEMPTION_TIMER" \in pin_ctls

\* vmx_launch / vmx_resume: the guest starts to run.
TimerVmEntry ==
    /\ UNCHANGED notTimerVars
    /\ tpc = "host"
    /\ tpc' = "guest"
    /\ timer_count' = IF TimerActive THEN timer_field ELSE timer_count
    /\ exit_ret' = [op |-> "guest", exit |-> [reason |-> "none"],
                    val |-> [kind |-> "running"]]
    /\ UNCHANGED <<pin_ctls, timer_field, guest_regs, guest_rip, guest_xcr0>>

\* The guest executes an instruction of a loop that causes no VM exit.
GuestSpins ==
    /\ UNCHANGED notTimerVars
    /\ tpc = "guest"
    /\ guest_rip' = (guest_rip + 1) % (MaxRip + 1)
    /\ UNCHANGED <<timerVars, guest_regs, guest_xcr0, exit_ret>>

\* The active timer counts down.
TimerCountsDown ==
    /\ UNCHANGED notTimerVars
    /\ tpc = "guest" /\ TimerActive /\ timer_count > 0
    /\ timer_count' = timer_count - 1
    /\ UNCHANGED <<pin_ctls, timer_field, tpc, exitVars>>

\* The active timer has reached 0: VM exit PREEMPTION_TIMER, handled by
\* builtin_vmexit_handler, and run() returns Nothing.
PreemptionTimerExit ==
    /\ UNCHANGED notTimerVars
    /\ tpc = "guest" /\ TimerActive /\ timer_count = 0
    /\ timer_field' = handle_vmx_preemption_timer
    /\ tpc' = "host"
    /\ exit_ret' = ExitReturned([reason |-> "PREEMPTION_TIMER"],
                                [kind |-> "Nothing"])
    /\ UNCHANGED <<pin_ctls, timer_count, guest_regs, guest_rip, guest_xcr0>>

\* The guest executes HLT: VM exit, and run() returns Halt.
GuestHalts ==
    /\ UNCHANGED notTimerVars
    /\ tpc = "guest"
    /\ tpc' = "host"
    /\ exit_ret' = ExitReturned([reason |-> "HLT"], [kind |-> "Halt"])
    /\ UNCHANGED <<pin_ctls, timer_field, timer_count, guest_regs, guest_rip,
                   guest_xcr0>>

\* The vCPU after setup() or setup_from_context() on a logical CPU.
InitTimer ==
    /\ \E must_be_one \in PinCapabilities :
          pin_ctls = setup_vmcs_control_pin(must_be_one)
    /\ \E from_ctx \in BOOLEAN : timer_field = setup_vmcs_timer_value(from_ctx)
    /\ timer_count = 0
    /\ tpc = "host"
    /\ guest_regs \in {r \in GuestRegs : r.rax = Zero64}
    /\ guest_rip \in 0..MaxRip
    /\ guest_xcr0 = <<0, 0, 0, 1>>
    /\ exit_ret = [op |-> "new", exit |-> [reason |-> "none"],
                   val |-> [kind |-> "Ok"]]
    /\ IdleVcpuVars /\ IdleCpuVars /\ IdleFrameVars /\ IdleMemVars
    /\ IdleDecVars /\ IdleCtxVars /\ IdleMoreVars

NextTimer ==
    \/ TimerVmEntry
    \/ GuestSpins
    \/ TimerCountsDown
    \/ PreemptionTimerExit
    \/ GuestHalts

SpecTimer == InitTimer /\ [][NextTimer]_vars

\* The logical CPU keeps executing the guest, keeps counting and delivers
\* the exit of a timer at 0.
SpecTimerFair ==
    /\ SpecTimer
    /\ WF_vars(GuestSpins)
    /\ WF_vars(TimerCountsDown)
    /\ WF_vars(PreemptionTimerExit)

\* C16: guest execution is bounded: once the guest runs, a VM exit eventually
\* returns control to the host, because the VMX-preemption timer is armed
\* and re-armed at every PREEMPTION_TIMER exit.
C16_GuestEventuallyExits == (tpc = "guest") ~> (tpc = "host")

(***************************************************************************)
(* The instruction length calculator (src/instruction_emulator.rs).        *)
(* A byte is a number in 0..255; bytes[pos] of the code is bytes[pos + 1]  *)
(* here.                                                                   *)
(***************************************************************************)
MAX_INSTRUCTION_LENGTH == 15

MaxLen == 3

VmCpuModes == {"Real", "Protected", "Compatibility", "Mode64"}

\* The bytes parse_prefixes takes for legacy prefixes: F0 F2 F3 2E 36 3E 26
\* 64 65 66 67.
LegacyPrefixBytes == {240, 242, 243, 46, 54, 62, 38, 100, 101, 102, 103}

OperandSizeOverride == 102
AddressSizeOverride == 103

\* RexPrefix::from_byte
RexPrefix_from_byte(byte) ==
    IF byte \div 16 = 4
    THEN [present |-> TRUE, w |-> (byte \div 8) % 2 = 1,
          r |-> (byte \div 4) % 2 = 1, x |-> (byte \div 2) % 2 = 1,
          b |-> byte % 2 = 1]
    ELSE [present |-> FALSE, w |-> FALSE, r |-> FALSE, x |-> FALSE,
          b |-> FALSE]

\* The loop of parse_prefixes: the position after the legacy prefixes.
RECURSIVE parse_legacy_prefixes(_, _)
parse_legacy_prefixes(bytes, pos) ==
    IF pos < Len(bytes) /\ pos < 4 /\ bytes[pos + 1] \in LegacyPrefixBytes
    THEN parse_legacy_prefixes(bytes, pos + 1)
    ELSE pos

\* parse_prefixes: a REX byte is taken in every CPU mode.
parse_prefixes(bytes) ==
    LET legacy_count == parse_legacy_prefixes(bytes, 0)
        rex == IF legacy_count < Len(bytes)
               THEN RexPrefix_from_byte(bytes[legacy_count + 1])
               ELSE RexPrefix_from_byte(0)
    IN  [legacy_prefixes |-> SubSeq(bytes, 1, legacy_count),
         rex |-> rex,
         total_length |-> legacy_count + (IF rex.present THEN 1 ELSE 0)]

HasPrefix(prefix_info, byte) ==
    \E i \in DOMAIN prefix_info.legacy_prefixes :
        prefix_info.legacy_prefixes[i] = byte

\* SizeInfo::calculate
SizeInfo_calculate(cpu_mode, prefix_info) ==
    LET default_operand == IF cpu_mode = "Real" THEN 2 ELSE 4
        default_address == CASE cpu_mode = "Real" -> 2
                             [] cpu_mode = "Mode64" -> 8
                             [] OTHER -> 4
        operand_size1 ==
            IF HasPrefix(prefix_info, OperandSizeOverride)
            THEN IF cpu_mode = "Mode64" THEN 2
                 ELSE IF default_operand = 2 THEN 4 ELSE 2
            ELSE default_operand
        address_size ==
            IF HasPrefix(prefix_info, AddressSizeOverride)
            THEN IF cpu_mode \in {"Real", "Mode64"} THEN 4
                 ELSE IF default_address = 2 THEN 4 ELSE 2
            ELSE default_address
        operand_size ==
            IF prefix_info.rex.present /\ prefix_info.rex.w
               /\ cpu_mode = "Mode64"
            THEN 8 ELSE operand_size1
    IN  [operand_size |-> operand_size, address_size |-> address_size]

\* ModRm::from_byte
ModRm_from_byte(byte) ==
    [mode |-> (byte \div 64) % 4, reg |-> (byte \div 8) % 8, rm |-> byte % 8]

\* ModRm::needs_sib
needs_sib(modrm) == modrm.mode # 3 /\ modrm.rm = 4

\* ModRm::displacement_length
displacement_length(modrm, address_size) ==
    CASE modrm.mode = 0 -> IF modrm.rm = 5 THEN address_size ELSE 0
      [] modrm.mode = 1 -> 1
      [] modrm.mode = 2 -> address_size
      [] modrm.mode = 3 -> 0

\* Sib::from_byte
Sib_from_byte(byte) ==
    [scale |-> (byte \div 64) % 4, index |-> (byte \div 8) % 8,
     base |-> byte % 8]

\* Sib::needs_displacement
needs_displacement(sib, modrm) ==
    sib.base = 5 /\ (modrm.mode = 0 \/ modrm.mode = 2)

\* The one-byte opcodes instruction_needs_modrm lists as having no ModR/M.
NoModRmOpcodes ==
    {6, 7, 14, 22, 23, 30, 31} \cup {39, 47, 55, 63} \cup (64..79)
    \cup (80..95) \cup {96, 97} \cup (112..127) \cup (144..151)
    \cup (152..159) \cup (160..163) \cup (164..167) \cup (168..175)
    \cup (176..191) \cup {194, 195, 202, 203} \cup (204..206) \cup {207}
    \cup {212, 213} \cup (224..227) \cup (228..231) \cup {232, 233}
    \cup {235} \cup (236..239) \cup {241, 244, 245} \cup (248..253)

\* instruction_needs_modrm
instruction_needs_modrm(opcode, is_two_byte) ==
    is_two_byte \/ opcode \notin NoModRmOpcodes

\* calculate_immediate_length, arm by arm in the order of the match.
calculate_immediate_length(opcode, is_two_byte, size_info) ==
    IF is_two_byte THEN 0
    ELSE CASE opcode \in 0..63
              /\ opcode \notin {4, 5, 12, 13, 20, 21, 28, 29, 36, 37, 44, 45,
                                52, 53, 60, 61} -> 0
           [] opcode \in {4, 12, 20, 28, 36, 44, 52, 60} -> 1
           [] opcode = 106 -> 1
           [] opcode \in 112..127 -> 1
           [] opcode \in {128, 130, 131} -> 1
           [] opcode = 168 -> 1
           [] opcode \in 176..183 -> 1
           [] opcode \in {192, 193} -> 1
           [] opcode = 198 -> 1
           [] opcode = 205 -> 1
           [] opcode \in 208..211 -> 0
           [] opcode = 235 -> 1
           [] opcode \in {5, 13, 21, 29, 37, 45, 53, 61} ->
                  size_info.operand_size
           [] opcode \in {104, 105, 129, 169} -> size_info.operand_size
           [] opcode \in 184..191 -> size_info.operand_size
           [] opcode = 199 -> size_info.operand_size
           [] opcode \in {232, 233} -> size_info.operand_size
           [] opcode \in {194, 202} -> 2
           [] opcode = 200 -> 3
           [] OTHER -> 0

InvalidInput ==
    [kind |-> "InvalidInput", n |-> 0, prefix_length |-> 0,
     opcode_length |-> 0, has_modrm |-> FALSE, mode |-> 0, has_sib |-> FALSE,
     displacement_length |-> 0, immediate_length |-> 0]

\* calculate_instruction_length with the parts it adds up.
instruction_layout(instruction_bytes, cpu_mode) ==
    IF Len(instruction_bytes) = 0 THEN InvalidInput
    ELSE IF Len(instruction_bytes) > MAX_INSTRUCTION_LENGTH THEN InvalidInput
    ELSE
    LET len == Len(instruction_bytes)
        prefix_info == parse_prefixes(instruction_bytes)
        pos0 == prefix_info.total_length
    IN
    IF pos0 >= len THEN InvalidInput
    ELSE
    LET size_info == SizeInfo_calculate(cpu_mode, prefix_info)
        opcode == instruction_bytes[pos0 + 1]
        is_two_byte_opcode == opcode = 15
        pos1 == pos0 + 1
    IN
    IF is_two_byte_opcode /\ pos1 >= len THEN InvalidInput
    ELSE
    LET pos2 == IF is_two_byte_opcode THEN pos1 + 1 ELSE pos1
        needs_modrm == instruction_needs_modrm(opcode, is_two_byte_opcode)
    IN
    IF needs_modrm /\ pos2 >= len THEN InvalidInput
    ELSE
    LET modrm_byte == IF needs_modrm
                      THEN ModRm_from_byte(instruction_bytes[pos2 + 1])
                      ELSE ModRm_from_byte(192)
        pos3 == IF needs_modrm THEN pos2 + 1 ELSE pos2
        has_sib == needs_modrm /\ needs_sib(modrm_byte)
    IN
    IF has_sib /\ pos3 >= len THEN InvalidInput
    ELSE
    LET pos4 == IF has_sib THEN pos3 + 1 ELSE pos3
        disp ==
            IF ~needs_modrm THEN 0
            ELSE IF has_sib
                    /\ needs_displacement(
                          Sib_from_byte(instruction_bytes[pos3 + 1]),
                          modrm_byte)
                 THEN size_info.address_size
                 ELSE displacement_length(modrm_byte, size_info.address_size)
        immediate_length ==
            calculate_immediate_length(opcode, is_two_byte_opcode, size_info)
        pos == pos4 + disp + immediate_length
    IN
    IF pos > MAX_INSTRUCTION_LENGTH THEN InvalidInput
    ELSE [kind |-> "Ok", n |-> pos, prefix_length |-> pos0,
          opcode_length |-> pos2 - pos0, has_modrm |-> needs_modrm,
          mode |-> modrm_byte.mode, has_sib |-> has_sib,
          displacement_length |-> disp,
          immediate_length |-> immediate_length]

\* calculate_instruction_length
calculate_instruction_length(instruction_bytes, cpu_mode) ==
    LET layout == instruction_layout(instruction_bytes, cpu_mode) IN
    [kind |-> layout.kind, n |-> layout.n]

\* The bytes the inputs are made of: 8B 83 84 05 48 66 67 0F B8 F0.
ByteSamples == {139, 131, 132, 5, 72, 102, 103, 15, 184, 240}

\* Operand bytes appended to an input: 78 56 34 12, repeated.
OperandBytes == [i \in 1..(MAX_INSTRUCTION_LENGTH + 1) |->
                    CASE i % 4 = 1 -> 120 [] i % 4 = 2 -> 86
                      [] i % 4 = 3 -> 52 [] OTHER -> 18]

ShortInputs == UNION {[1..n -> ByteSamples] : n \in 0..MaxLen}

\* The inputs: every sequence of up to MaxLen sample bytes, alone or
\* followed by operand bytes up to 6, 15 or 16 bytes.
InstructionInputs ==
    ShortInputs \cup
    {s \o SubSeq(OperandBytes, 1, total - Len(s)) :
        s \in ShortInputs,
        total \in {6, MAX_INSTRUCTION_LENGTH, MAX_INSTRUCTION_LENGTH + 1}}

\* A caller asks for the length of the instruction in dec_bytes.
CalculateInstructionLength ==
    /\ UNCHANGED notDecVars
    /\ dec_ret' = calculate_instruction_length(dec_bytes, dec_mode)
    /\ UNCHANGED <<dec_bytes, dec_mode>>

InitDec ==
    /\ dec_bytes \in InstructionInputs
    /\ dec_mode \in VmCpuModes
    /\ dec_ret = [kind |-> "none", n |-> 0]
    /\ IdleVcpuVars /\ IdleCpuVars /\ IdleFrameVars /\ IdleExitVars
    /\ IdleMemVars /\ IdleTimerVars /\ IdleCtxVars /\ IdleMoreVars

NextDec == CalculateInstructionLength

SpecDec == InitDec /\ [][NextDec]_vars

(***************************************************************************)
(* Properties of the instruction length calculator, checked under SpecDec. *)
(***************************************************************************)
\* C18: an Ok(n) for 1..15 bytes has n <= bytes.len() and is what decoding
\* the same bytes again returns; no bytes or more than 15 bytes give
\* InvalidInput.
C18_LengthWithinInput ==
    dec_ret.kind # "none" =>
        /\ (Len(dec_bytes) = 0 \/ Len(dec_bytes) > MAX_INSTRUCTION_LENGTH)
              => dec_ret.kind = "InvalidInput"
        /\ dec_ret.kind = "Ok"
              => /\ dec_ret.n <= Len(dec_bytes)
                 /\ calculate_instruction_length(dec_bytes, dec_mode) = dec_ret

\* C19: in 64-bit mode an instruction with a ModR/M byte of mod = 10 has a
\* 4-byte displacement: its length is prefixes + opcode + ModR/M (+ SIB) + 4
\* + immediate, and 8B 83 78 56 34 12 has length 6.
C19_Mod10HasDisp32 ==
    LET layout == instruction_layout(dec_bytes, dec_mode) IN
    /\ (dec_ret.kind = "Ok" /\ dec_mode = "Mode64" /\ layout.has_modrm
        /\ layout.mode = 2)
          => dec_ret.n = layout.prefix_length + layout.opcode_length + 1
                         + (IF layout.has_sib THEN 1 ELSE 0) + 4
                         + layout.immediate_length
    /\ (dec_ret.kind # "none" /\ dec_mode = "Mode64"
        /\ dec_bytes = <<139, 131, 120, 86, 52, 18>>)
          => dec_ret = [kind |-> "Ok", n |-> 6]

(***************************************************************************)
(* LinuxContext (src/context.rs).  host_state holds the registers of the   *)
(* logical CPU that load_from reads and restore writes; a segment register *)
(* is its selector index, a descriptor table register its base and its     *)
(* number of 8-byte entries, CR3 its frame address and its PCID bits.      *)
(***************************************************************************)
NumImages == 2

Images == 1..NumImages

\* The registers as software k left them: Linux, the hypervisor, ...  The
\* TSS descriptor of image k takes the slots 2k and 2k + 1 of a GDT of
\* 2k + 2 entries.
Image(k) ==
    [es |-> k, cs |-> k, ss |-> k, ds |-> k, fs |-> k, gs |-> k,
     tr |-> 2 * k,
     gdtr |-> [base |-> k, entries |-> 2 * k + 2],
     idtr |-> [base |-> k, entries |-> k],
     fs_base |-> k, gs_base |-> k,
     cr0 |-> k, cr3 |-> [addr |-> k, pcid |-> k - 1], cr4 |-> k,
     efer |-> k, star |-> k, lstar |-> k, cstar |-> k, fmask |-> k,
     ia32_sysenter_cs |-> k, ia32_sysenter_esp |-> k,
     ia32_sysenter_eip |-> k, kernel_gsbase |-> k, pat |-> k,
     mtrr_def_type |-> k]

RegisterGroups ==
    [seg |-> {"es", "cs", "ss", "ds", "fs", "gs", "tr", "gdtr", "idtr"},
     base |-> {"fs_base", "gs_base"},
     cr |-> {"cr0", "cr3", "cr4"},
     msr |-> {"efer", "star", "lstar", "cstar", "fmask", "ia32_sysenter_cs",
              "ia32_sysenter_esp", "ia32_sysenter_eip", "kernel_gsbase",
              "pat", "mtrr_def_type"}]

\* The eight words load_from reads at linux_sp: the GS base, then r15, r14,
\* r13, r12, rbx, rbp and the return address.
LinuxStack(gs_base) == <<gs_base, 15, 14, 13, 12, 11, 10, 9>>

\* Segment::from_selector, as far as the selector goes.
Segment_from_selector(selector) == [selector |-> selector, base |-> 0]

\* The base a load of a segment register takes from the descriptor: the
\* segments of the GDTs are flat.
DescriptorBase(selector) == 0

\* LinuxContext::default
LinuxContext_default ==
    [rsp |-> 0, rip |-> 0, r15 |-> 0, r14 |-> 0, r13 |-> 0, r12 |-> 0,
     rbx |-> 0, rbp |-> 0,
     es |-> Segment_from_selector(0), cs |-> Segment_from_selector(0),
     ss |-> Segment_from_selector(0), ds |-> Segment_from_selector(0),
     fs |-> Segment_from_selector(0), gs |-> Segment_from_selector(0),
     tss |-> Segment_from_selector(0),
     gdt |-> [base |-> 0, entries |-> 0], idt |-> [base |-> 0, entries |-> 0],
     cr0 |-> 0, cr3 |-> 0, cr4 |-> 0,
     efer |-> 0, star |-> 0, lstar |-> 0, cstar |-> 0, fmask |-> 0,
     ia32_sysenter_cs |-> 0, ia32_sysenter_esp |-> 0,
     ia32_sysenter_eip |-> 0, kernel_gsbase |-> 0, pat |-> 0,
     mtrr_def_type |-> 0]

\* LinuxContext::load_from: the GS base comes from the stack, the FS base
\* from IA32_FS_BASE, CR3 without its low bits.
load_from(h, regs) ==
    [rsp |-> 8, rip |-> regs[8], r15 |-> regs[2], r14 |-> regs[3],
     r13 |-> regs[4], r12 |-> regs[5], rbx |-> regs[6], rbp |-> regs[7],
     es |-> Segment_from_selector(h.es), cs |-> Segment_from_selector(h.cs),
     ss |-> Segment_from_selector(h.ss), ds |-> Segment_from_selector(h.ds),
     fs |-> [Segment_from_selector(h.fs) EXCEPT !.base = h.fs_base],
     gs |-> [Segment_from_selector(h.gs) EXCEPT !.base = regs[1]],
     tss |-> Segment_from_selector(h.tr),
     gdt |-> h.gdtr, idt |-> h.idtr,
     cr0 |-> h.cr0, cr3 |-> h.cr3.addr, cr4 |-> h.cr4,
     efer |-> h.efer, star |-> h.star, lstar |-> h.lstar, cstar |-> h.cstar,
     fmask |-> h.fmask,
     ia32_sysenter_cs |-> h.ia32_sysenter_cs,
     ia32_sysenter_esp |-> h.ia32_sysenter_esp,
     ia32_sysenter_eip |-> h.ia32_sysenter_eip,
     kernel_gsbase |-> h.kernel_gsbase, pat |-> h.pat,
     mtrr_def_type |-> h.mtrr_def_type]

\* The first block of restore: the MSRs, CR0, CR4, then CR3 without PCID.
restore_msrs_and_crs(h, ctx) ==
    [h EXCEPT !.ia32_sysenter_cs = ctx.ia32_sysenter_cs,
              !.ia32_sysenter_esp = ctx.ia32_sysenter_esp,
              !.ia32_sysenter_eip = ctx.ia32_sysenter_eip,
              !.efer = ctx.efer, !.star = ctx.star, !.lstar = ctx.lstar,
              !.cstar = ctx.cstar, !.fmask = ctx.fmask,
              !.kernel_gsbase = ctx.kernel_gsbase, !.pat = ctx.pat,
              !.cr0 = ctx.cr0, !.cr4 = ctx.cr4,
              !.cr3 = [addr |-> ctx.cr3, pcid |-> 0]]

\* The copy of the TSS descriptor indexes both GDTs at tss_idx and
\* tss_idx + 1; an index outside a table panics.
tss_copy_in_bounds(h, ctx) ==
    LET tss_idx == ctx.tss.selector IN
    /\ tss_idx + 1 < h.gdtr.entries
    /\ tss_idx + 1 < ctx.gdt.entries

\* load_tr, lgdt, lidt and the loads of the segment registers; each load of
\* FS and GS replaces the base by the descriptor's.
restore_segments(h, ctx) ==
    [h EXCEPT !.tr = ctx.tss.selector, !.gdtr = ctx.gdt, !.idtr = ctx.idt,
              !.es = ctx.es.selector, !.cs = ctx.cs.selector,
              !.ss = ctx.ss.selector, !.ds = ctx.ds.selector,
              !.fs = ctx.fs.selector, !.gs = ctx.gs.selector,
              !.fs_base = DescriptorBase(ctx.fs.selector),
              !.gs_base = DescriptorBase(ctx.gs.selector)]

\* restore without its last write.
write_fs_base_skipped(h, ctx) == h

\* Msr::IA32_FS_BASE.write(self.fs.base), the last write of restore.
write_fs_base(h, ctx) == [h EXCEPT !.fs_base = ctx.fs.base]

\* LinuxContext::restore: the registers after it, and whether it returned.
restore(h, ctx) ==
    LET h1 == restore_msrs_and_crs(h, ctx) IN
    IF tss_copy_in_bounds(h1, ctx)
    THEN [val |-> "Ok", host |-> write_fs_base(restore_segments(h1, ctx), ctx)]
    ELSE [val |-> "panic", host |-> h1]

\* LinuxContext::return_to_linux, as far as the system registers go.
return_to_linux(h, ctx) == [h EXCEPT !.gs_base = ctx.gs.base]

CtxRunning == ctx_ret.val = "Ok" /\ ctx_ret.op # "return_to_linux"

CtxReturned(op, val, dirty) == [op |-> op, val |-> val, dirty |-> dirty]

\* The hypervisor is entered and captures the context of Linux.
LoadFrom(gs_base) ==
    /\ UNCHANGED notCtxVars /\ CtxRunning
    /\ linux_ctx' = load_from(host_state, LinuxStack(gs_base))
    /\ ctx_ret' = CtxReturned("load_from", "Ok", FALSE)
    /\ UNCHANGED host_state

\* The hypervisor or a guest changes a group of registers.
HostChanges(k, group) ==
    /\ UNCHANGED notCtxVars /\ CtxRunning
    /\ host_state' = [r \in DOMAIN host_state |->
                         IF r \in RegisterGroups[group]
                         THEN Image(k)[r] ELSE host_state[r]]
    /\ ctx_ret' = CtxReturned("change", "Ok", FALSE)
    /\ UNCHANGED linux_ctx

\* restore() of a captured context.
Restore ==
    /\ UNCHANGED notCtxVars /\ CtxRunning
    /\ linux_ctx # LinuxContext_default
    /\ host_state' = restore(host_state, linux_ctx).host
    /\ ctx_ret' = CtxReturned("restore", restore(host_state, linux_ctx).val,
                      load_from(host_state, LinuxStack(linux_ctx.gs.base))
                          # linux_ctx)
    /\ UNCHANGED linux_ctx

\* return_to_linux() after restore().
ReturnToLinux ==
    /\ UNCHANGED notCtxVars /\ CtxRunning
    /\ ctx_ret.op = "restore"
    /\ host_state' = return_to_linux(host_state, linux_ctx)
    /\ ctx_ret' = CtxReturned("return_to_linux", "Ok", ctx_ret.dirty)
    /\ UNCHANGED linux_ctx

InitCtx ==
    /\ host_state \in {Image(k) : k \in Images}
    /\ linux_ctx = LinuxContext_default
    /\ ctx_ret = CtxReturned("default", "Ok", FALSE)
    /\ IdleVcpuVars /\ IdleCpuVars /\ IdleFrameVars /\ IdleExitVars
    /\ IdleMemVars /\ IdleTimerVars /\ IdleDecVars /\ IdleMoreVars

NextCtx ==
    \/ \E gs_base \in Images : LoadFrom(gs_base)
    \/ \E k \in Images, group \in DOMAIN RegisterGroups : HostChanges(k, group)
    \/ Restore
    \/ ReturnToLinux

SpecCtx == InitCtx /\ [][NextCtx]_vars

(***************************************************************************)
(* Properties of LinuxContext, checked under SpecCtx.                      *)
(***************************************************************************)
\* The registers the round trip is about, but the GS base, hold the values
\* the context captured.
CapturedRestored ==
    /\ host_state.es = linux_ctx.es.selector
    /\ host_state.cs = linux_ctx.cs.selector
    /\ host_state.ss = linux_ctx.ss.selector
    /\ host_state.ds = linux_ctx.ds.selector
    /\ host_state.fs = linux_ctx.fs.selector
    /\ host_state.gs = linux_ctx.gs.selector
    /\ host_state.fs_base = linux_ctx.fs.base
    /\ host_state.gdtr = linux_ctx.gdt
    /\ host_state.idtr = linux_ctx.idt
    /\ host_state.cr0 = linux_ctx.cr0
    /\ host_state.cr3.addr = linux_ctx.cr3
    /\ host_state.cr4 = linux_ctx.cr4
    /\ host_state.efer = linux_ctx.efer
    /\ host_state.star = linux_ctx.star
    /\ host_state.lstar = linux_ctx.lstar
    /\ host_state.cstar = linux_ctx.cstar
    /\ host_state.fmask = linux_ctx.fmask
    /\ host_state.ia32_sysenter_cs = linux_ctx.ia32_sysenter_cs
    /\ host_state.ia32_sysenter_esp = linux_ctx.ia32_sysenter_esp
    /\ host_state.ia32_sysenter_eip = linux_ctx.ia32_sysenter_eip
    /\ host_state.kernel_gsbase = linux_ctx.kernel_gsbase
    /\ host_state.pat = linux_ctx.pat

RegisterOfIndex ==
    <<"rax", "rcx", "rdx", "rbx", "rsp", "rbp", "rsi", "rdi",
      "r8", "r9", "r10", "r11", "r12", "r13", "r14", "r15">>

LegalIndex(index) == index \in 0..15 /\ index # 4

\* `reg as u8`
as_u8(reg) == reg % 256

\* GeneralRegisters::get_reg_of_index
get_reg_of_index(regs, index) ==
    IF LegalIndex(index)
    THEN [kind |-> "Ok", value |-> regs[RegisterOfIndex[index + 1]]]
    ELSE \* panic!("Illegal index")
         [kind |-> "panic", value |-> Zero64]

\* GeneralRegisters::set_reg_of_index
set_reg_of_index(regs, index, val) ==
    IF LegalIndex(index)
    THEN [kind |-> "Ok",
          regs |-> [regs EXCEPT ![RegisterOfIndex[index + 1]] = val]]
    ELSE [kind |-> "panic", regs |-> regs]

GprReturned(op, index, val) ==
    [op |-> op, exit |-> [reason |-> "none", index |-> index], val |-> val]

\* regs.get_reg_of_index(index) with a u8 index.
GetRegOfIndex(index) ==
    /\ UNCHANGED notExitVars /\ ExitRunning
    /\ exit_ret' = GprReturned("get_reg_of_index", index,
                               get_reg_of_index(guest_regs, index))
    /\ UNCHANGED <<guest_regs, guest_rip, guest_xcr0>>

\* regs.set_reg_of_index(index, val) with a u8 index.
SetRegOfIndex(index, val) ==
    /\ UNCHANGED notExitVars /\ ExitRunning
    /\ guest_regs' = set_reg_of_index(guest_regs, index, val).regs
    /\ exit_ret' = GprReturned("set_reg_of_index", index,
                      [kind |-> set_reg_of_index(guest_regs, index, val).kind,
                       value |-> val])
    /\ UNCHANGED <<guest_rip, guest_xcr0>>

\* AxVcpuAccessGuestState::read_gpr with a usize index.
ReadGpr(reg) ==
    /\ UNCHANGED notExitVars /\ ExitRunning
    /\ exit_ret' = GprReturned("read_gpr", reg,
                               get_reg_of_index(guest_regs, as_u8(reg)))
    /\ UNCHANGED <<guest_regs, guest_rip, guest_xcr0>>

\* AxArchVCpu::set_gpr and AxVcpuAccessGuestState::write_gpr with a usize
\* index: the same body.
WriteGpr(op, reg, val) ==
    /\ UNCHANGED notExitVars /\ ExitRunning
    /\ guest_regs' = set_reg_of_index(guest_regs, as_u8(reg), val).regs
    /\ exit_ret' = GprReturned(op, reg,
                      [kind |-> set_reg_of_index(guest_regs, as_u8(reg),
                                                 val).kind,
                       value |-> val])
    /\ UNCHANGED <<guest_rip, guest_xcr0>>

\* Indices a caller passes: legal ones, RSP, the first illegal one, the
\* largest u8, and usize values of 256 and more.
U8Indices == {0, 3, 4, 15, 16, 255}
UsizeIndices == U8Indices \cup {256, 259, 260, 272}

GprValues == {<<0, 0, 0, 1>>, <<1, 0, 0, 2>>}

\* Register i holds 0x100 + i.
InitGpr ==
    /\ guest_regs = [r \in {RegisterOfIndex[i + 1] : i \in (0..15) \ {4}} |->
                        <<0, 0, 0, 256 + (CHOOSE i \in 0..15 :
                                             RegisterOfIndex[i + 1] = r)>>]
    /\ guest_rip = 0
    /\ guest_xcr0 = <<0, 0, 0, 1>>
    /\ exit_ret = [op |-> "new", exit |-> [reason |-> "none", index |-> 0],
                   val |-> [kind |-> "Ok", value |-> Zero64]]
    /\ IdleVcpuVars /\ IdleCpuVars /\ IdleFrameVars /\ IdleRestVars

NextGpr ==
    \/ \E index \in U8Indices : GetRegOfIndex(index)
    \/ \E index \in U8Indices, val \in GprValues : SetRegOfIndex(index, val)
    \/ \E reg \in UsizeIndices : ReadGpr(reg)
    \/ \E op \in {"set_gpr", "write_gpr"}, reg \in UsizeIndices,
          val \in GprValues : WriteGpr(op, reg, val)

SpecGpr == InitGpr /\ [][NextGpr]_vars

\* C21: an access by an illegal index, 4 or any index of 16 and more, also
\* a usize index of 256 and more, panics with "Illegal index" and neither
\* reads nor changes a register.
C21_IllegalIndexPanics ==
    [][(/\ exit_ret'.op \in {"get_reg_of_index", "set_reg_of_index",
                             "read_gpr", "set_gpr", "write_gpr"}
        /\ exit_ret' # exit_ret
        /\ ~LegalIndex(exit_ret'.exit.index))
        => /\ exit_ret'.val.kind = "panic"
           /\ guest_regs' = guest_regs]_vars

(***************************************************************************)
(* The world switch of a VmxVcpu: inner_run, vmx_launch / vmx_resume and   *)
(* vmx_exit.  Memory is addressed in words of 8 bytes.  The VmxVcpu lies   *)
(* at VcpuBase: guest_regs in its first 16 words (the slot of RSP is not   *)
(* used), host_stack_top in the word after them.                           *)
(***************************************************************************)
VcpuBase == 4
MemTop == 44
MaxGuestVal == 2

\* size_of::<GeneralRegisters>(), in words.
GeneralRegistersSize == 16

Addrs == 0..MemTop
GprNames == {RegisterOfIndex[i + 1] : i \in (0..15) \ {4}}
SlotOf(r) == CHOOSE i \in 0..15 : RegisterOfIndex[i + 1] = r

\* &self.host_stack_top
HostStackTopAddr == VcpuBase + GeneralRegistersSize

\* The address vmx_launch and vmx_resume return to.
RetAddr == MemTop + 1000

\* save_regs_to_stack!(): push r15 .. rdi, rsi, rbp, skip a word, push rbx,
\* rdx, rcx, rax.  What is left is laid out as a GeneralRegisters at the
\* new stack pointer.
save_regs_to_stack(m, sp, g) ==
    LET low == sp - GeneralRegistersSize
    IN  [mem |-> [a \in DOMAIN m |->
                    IF a \in low..(sp - 1) /\ a - low # 4
                    THEN g[RegisterOfIndex[a - low + 1]] ELSE m[a]],
         rsp |-> low]

\* restore_regs_from_stack!(): the pops in the opposite order.
restore_regs_from_stack(m, sp) ==
    [gprs |-> [r \in GprNames |-> m[sp + SlotOf(r)]],
     rsp |-> sp + GeneralRegistersSize]

\* VmxVcpu::guest_regs as it lies in memory.
guest_regs_in(m) == [r \in GprNames |-> m[VcpuBase + SlotOf(r)]]

\* A trampoline that does not store RSP in host_stack_top.
vmx_entry_with_nosave(m, sp, g) ==
    [mem |-> save_regs_to_stack(m, sp, g).mem,
     gprs |-> restore_regs_from_stack(m, g["rdi"]).gprs]

\* vmx_entry_with!: the host's registers go to the host stack, RSP to
\* host_stack_top ([rdi + size_of::<GeneralRegisters>()]), then the guest's
\* registers are popped from guest_regs.  rdi is &mut self.
vmx_entry_with(m, sp, g) ==
    LET saved == save_regs_to_stack(m, sp, g)
        m2 == [saved.mem EXCEPT ![g["rdi"] + GeneralRegistersSize] =
                                    saved.rsp]
    IN  [mem |-> m2, gprs |-> restore_regs_from_stack(m2, g["rdi"]).gprs]

\* vmx_exit: entered with RSP = the host RSP field of the VMCS and the
\* guest's registers.  They are pushed, RSP is loaded from the word a
\* GeneralRegisters above, the host's registers are popped, and ret pops
\* the return address.
vmx_exit(m, field, g) ==
    LET saved == save_regs_to_stack(m, field, g)
        sp == saved.mem[saved.rsp + GeneralRegistersSize]
    IN  IF sp \in Addrs /\ sp + GeneralRegistersSize \in Addrs
        THEN LET host == restore_regs_from_stack(saved.mem, sp)
             IN  [mem |-> saved.mem, gprs |-> host.gprs,
                  rip |-> saved.mem[host.rsp], rsp |-> host.rsp + 1]
        ELSE [mem |-> saved.mem, gprs |-> g, rip |-> 0, rsp |-> sp]

WsReturned(op, instr) ==
    [op |-> op, instr |-> instr,
     rebound |-> IF op = "unbind" THEN TRUE
                 ELSE IF op = "new" THEN FALSE ELSE ws_ret.rebound]

NotWsVars == <<oldVars, twoVars, crVars, svmVars, ptVars>>

\* The host runs between two calls: other registers, another stack depth.
HostComputes(k, sp) ==
    /\ UNCHANGED NotWsVars
    /\ ws_pc = "host"
    /\ cpu_gprs' = [r \in GprNames |-> 100 + k + SlotOf(r)]
    /\ cpu_rsp' = sp
    /\ ws_ret' = WsReturned("host", "none")
    /\ UNCHANGED <<ws_mem, host_rsp_field, ws_vcpu, ws_pc, ws_pre>>

\* bind() / bind_to_current_processor(): vmptrld.
WsBind ==
    /\ UNCHANGED NotWsVars
    /\ ws_pc = "host"
    /\ ws_vcpu' = [ws_vcpu EXCEPT !.current = TRUE]
    /\ ws_ret' = WsReturned("bind", "none")
    /\ UNCHANGED <<cpu_gprs, cpu_rsp, ws_mem, host_rsp_field, ws_pc, ws_pre>>

\* unbind(): launched = false, then vmclear.
WsUnbind ==
    /\ UNCHANGED NotWsVars
    /\ ws_pc = "host"
    /\ ws_vcpu' = [launched |-> FALSE, current |-> FALSE,
                   launch_state |-> "clear"]
    /\ ws_ret' = WsReturned("unbind", "none")
    /\ UNCHANGED <<cpu_gprs, cpu_rsp, ws_mem, host_rsp_field, ws_pc, ws_pre>>

\* unbind_from_current_processor(): vmclear only.
WsUnbindFromCurrentProcessor ==
    /\ UNCHANGED NotWsVars
    /\ ws_pc = "host"
    /\ ws_vcpu' = [ws_vcpu EXCEPT !.current = FALSE,
                                  !.launch_state = "clear"]
    /\ ws_ret' = WsReturned("unbind_from_current_processor", "none")
    /\ UNCHANGED <<cpu_gprs, cpu_rsp, ws_mem, host_rsp_field, ws_pc, ws_pre>>

\* inner_run up to the VM entry.  The call passes &mut self in rdi and
\* pushes the return address.  A vmlaunch or vmresume that VMfails jumps to
\* vmx_entry_failed, which panics; an entry that fails on the guest state
\* loads the host state like a VM exit and leaves the launch state alone.
WsRun(guest_state_ok) ==
    /\ UNCHANGED NotWsVars
    /\ ws_pc = "host"
    /\ LET instr == IF ws_vcpu.launched THEN "vmresume" ELSE "vmlaunch"
           field == IF ws_vcpu.launched THEN host_rsp_field
                    ELSE HostStackTopAddr
           g == [cpu_gprs EXCEPT !["rdi"] = VcpuBase]
           called == [ws_mem EXCEPT ![cpu_rsp - 1] = RetAddr]
           sw == vmx_entry_with(called, cpu_rsp - 1, g)
           vmfail == \/ instr = "vmlaunch" /\ ws_vcpu.launch_state # "clear"
                     \/ instr = "vmresume"
                            /\ ws_vcpu.launch_state # "launched"
       IN  /\ ws_ret' = WsReturned("run", instr)
           /\ ws_pre' = [gprs |-> g, rsp |-> cpu_rsp]
           /\ IF ~ws_vcpu.current
              THEN \* the VMCS write or the entry fails: panic
                   /\ ws_pc' = "panic"
                   /\ ws_vcpu' = [ws_vcpu EXCEPT !.launched = TRUE]
                   /\ UNCHANGED <<cpu_gprs, cpu_rsp, ws_mem, host_rsp_field>>
              ELSE /\ host_rsp_field' = field
                   /\ ws_mem' = sw.mem
                   /\ cpu_gprs' = sw.gprs
                   /\ cpu_rsp' = HostStackTopAddr
                   /\ IF vmfail
                      THEN /\ ws_pc' = "panic"
                           /\ ws_vcpu' = [ws_vcpu EXCEPT !.launched = TRUE]
                      ELSE IF guest_state_ok
                      THEN /\ ws_pc' = "guest"
                           /\ ws_vcpu' = [ws_vcpu EXCEPT
                                            !.launched = TRUE,
                                            !.launch_state = "launched"]
                      ELSE /\ ws_pc' = "failed_entry"
                           /\ ws_vcpu' = [ws_vcpu EXCEPT !.launched = TRUE]

\* The guest computes in its registers.
WsGuestRuns(r, v) ==
    /\ UNCHANGED NotWsVars
    /\ ws_pc = "guest"
    /\ cpu_gprs' = [cpu_gprs EXCEPT ![r] = v]
    /\ ws_ret' = WsReturned("guest", ws_ret.instr)
    /\ UNCHANGED <<cpu_rsp, ws_mem, host_rsp_field, ws_vcpu, ws_pc, ws_pre>>

\* A VM exit: the processor loads RSP from the host RSP field and RIP from
\* the host RIP field, which is vmx_exit.
WsVmExit ==
    /\ UNCHANGED NotWsVars
    /\ ws_pc \in {"guest", "failed_entry"}
    /\ LET x == vmx_exit(ws_mem, host_rsp_field, cpu_gprs)
       IN  /\ ws_mem' = x.mem
           /\ cpu_gprs' = x.gprs
           /\ cpu_rsp' = x.rsp
           /\ ws_pc' = IF x.rip = RetAddr THEN "host" ELSE "wild"
    /\ ws_ret' = WsReturned("vmexit", ws_ret.instr)
    /\ UNCHANGED <<host_rsp_field, ws_vcpu, ws_pre>>

HostRsps == {MemTop - 2, MemTop}
HostPatterns == {0, 50}
GuestTouched == {"rax", "r15"}

\* After new(): guest_regs and host_stack_top are zero, the VMCS is clear.
InitSwitch ==
    /\ cpu_gprs = [r \in GprNames |-> 100 + SlotOf(r)]
    /\ cpu_rsp = MemTop
    /\ ws_mem = [a \in Addrs |-> 0]
    /\ host_rsp_field = 0
    /\ ws_vcpu = [launched |-> FALSE, current |-> FALSE,
                  launch_state |-> "clear"]
    /\ ws_pc = "host"
    /\ ws_pre = [gprs |-> cpu_gprs, rsp |-> cpu_rsp]
    /\ ws_ret = [op |-> "new", instr |-> "none", rebound |-> FALSE]
    /\ IdleVcpuVars /\ IdleCpuVars /\ IdleFrameVars /\ IdleExitVars
    /\ IdleMemVars /\ IdleTimerVars /\ IdleDecVars /\ IdleCtxVars
    /\ IdleTwoVars /\ IdleCrVars /\ IdleSvmVars /\ IdlePtVars

NextSwitch ==
    \/ \E k \in HostPatterns, sp \in HostRsps : HostComputes(k, sp)
    \/ WsBind
    \/ WsUnbind
    \/ WsUnbindFromCurrentProcessor
    \/ \E ok \in BOOLEAN : WsRun(ok)
    \/ \E r \in GuestTouched, v \in 0..MaxGuestVal : WsGuestRuns(r, v)
    \/ WsVmExit

SpecSwitch == InitSwitch /\ [][NextSwitch]_vars

\* C23: the world-switch round trip.  At every VM entry the host RSP field
\* of the VMCS is the address of host_stack_top; at every VM exit the
\* guest's 15 registers are stored in guest_regs, the host's stack pointer
\* is restored and the host's registers have the values they had before
\* the entry, on the first and on later entries and after unbind()/bind().
C23_WorldSwitchRoundTrip ==
    [][/\ (ws_pc = "host" /\ ws_pc' \in {"guest", "failed_entry"})
            => host_rsp_field' = HostStackTopAddr
       /\ (ws_pc \in {"guest", "failed_entry"} /\ ws_pc' # ws_pc)
            => /\ ws_pc' = "host"
               /\ guest_regs_in(ws_mem') = cpu_gprs
               /\ cpu_rsp' = ws_pre.rsp
               /\ cpu_gprs' = ws_pre.gprs]_vars

\* A later entry (vmresume) after unbind() and bind() has come back with
\* registers the guest has written.
C23_Witness ==
    /\ ws_pc = "host" /\ ws_ret.op = "vmexit"
    /\ ws_ret.instr = "vmresume" /\ ws_ret.rebound
    /\ guest_regs_in(ws_mem)["r15"] = MaxGuestVal
    /\ guest_regs_in(ws_mem)["rax"] = 1
    /\ cpu_rsp = MemTop - 2

(***************************************************************************)
(* Two VmxVcpus on one logical CPU.  The logical CPU has one current-VMCS  *)
(* pointer: VMPTRLD makes a VMCS current, VMCLEAR of the current VMCS      *)
(* leaves the pointer invalid, VMCLEAR of another VMCS leaves it alone.    *)
(***************************************************************************)
VcpuIds == {"A", "B"}

vmptrld_of(cur, v) == v

vmclear_of(cur, v) == IF cur = v THEN "invalid" ELSE cur

\* VmxVcpu::new: no entry, no EPT root, not launched, a fresh VMCS region.
VmxVcpu_new ==
    [entry |-> FALSE, ept_root |-> FALSE, launched |-> FALSE,
     launch_state |-> "clear", configured |-> FALSE]

\* setup_vmcs: vmclear, bind_to_current_processor, the guest fields (an
\* entry of None returns InvalidInput here), the controls,
\* unbind_from_current_processor.
setup_vmcs(cur, vc, has_ctx) ==
    LET bound == vmptrld_of(vmclear_of(cur, vc.id), vc.id)
        cleared == [vc.fields EXCEPT !.launch_state = "clear"]
    IN  IF ~has_ctx /\ ~cleared.entry
        THEN [cur |-> bound, fields |-> cleared, val |-> "InvalidInput"]
        ELSE [cur |-> vmclear_of(bound, vc.id),
              fields |-> [cleared EXCEPT !.configured = TRUE], val |-> "Ok"]

TwoReturned(op, v, val) == [op |-> op, vcpu |-> v, val |-> val]

Exists(v) == two_vcpus[v] # <<>>

NotTwoVars == <<oldVars, wsVars, crVars, svmVars, ptVars>>

TwoNew(v) ==
    /\ UNCHANGED NotTwoVars
    /\ ~Exists(v)
    /\ two_vcpus' = [two_vcpus EXCEPT ![v] = <<VmxVcpu_new>>]
    /\ two_ret' = TwoReturned("new", v, "Ok")
    /\ UNCHANGED two_cur

TwoSetEntry(v) ==
    /\ UNCHANGED NotTwoVars
    /\ Exists(v) /\ two_ret.val # "panic"
    /\ two_vcpus' = [two_vcpus EXCEPT ![v][1].entry = TRUE]
    /\ two_ret' = TwoReturned("set_entry", v, "Ok")
    /\ UNCHANGED two_cur

TwoSetEptRoot(v) ==
    /\ UNCHANGED NotTwoVars
    /\ Exists(v) /\ two_ret.val # "panic"
    /\ two_vcpus' = [two_vcpus EXCEPT ![v][1].ept_root = TRUE]
    /\ two_ret' = TwoReturned("set_ept_root", v, "Ok")
    /\ UNCHANGED two_cur

\* setup() and setup_from_context(): self.ept_root.unwrap(), then setup_vmcs.
TwoSetup(v, has_ctx) ==
    /\ UNCHANGED NotTwoVars
    /\ Exists(v) /\ two_ret.val # "panic"
    /\ LET op == IF has_ctx THEN "setup_from_context" ELSE "setup"
           s == setup_vmcs(two_cur, [id |-> v, fields |-> two_vcpus[v][1]],
                           has_ctx)
       IN  IF ~two_vcpus[v][1].ept_root
           THEN /\ two_ret' = TwoReturned(op, v, "panic")
                /\ UNCHANGED <<two_vcpus, two_cur>>
           ELSE /\ two_ret' = TwoReturned(op, v, s.val)
                /\ two_cur' = s.cur
                /\ two_vcpus' = [two_vcpus EXCEPT ![v] = <<s.fields>>]

\* bind(): bind_to_current_processor.
TwoBind(v) ==
    /\ UNCHANGED NotTwoVars
    /\ Exists(v) /\ two_ret.val # "panic"
    /\ two_cur' = vmptrld_of(two_cur, v)
    /\ two_ret' = TwoReturned("bind", v, "Ok")
    /\ UNCHANGED two_vcpus

\* unbind(): launched = false, then vmclear.
TwoUnbind(v) ==
    /\ UNCHANGED NotTwoVars
    /\ Exists(v) /\ two_ret.val # "panic"
    /\ two_cur' = vmclear_of(two_cur, v)
    /\ two_vcpus' = [two_vcpus EXCEPT ![v][1].launched = FALSE,
                                      ![v][1].launch_state = "clear"]
    /\ two_ret' = TwoReturned("unbind", v, "Ok")

\* run() up to the next VM exit.  Every VMCS access and the entry
\* instruction work on the current VMCS, whichever vCPU it belongs to.
TwoRun(v) ==
    /\ UNCHANGED NotTwoVars
    /\ Exists(v) /\ two_ret.val # "panic"
    /\ UNCHANGED two_cur
    /\ LET l == two_vcpus[v][1].launched
           flagged == [two_vcpus EXCEPT ![v][1].launched = TRUE]
       IN  IF two_cur = "invalid"
           THEN /\ two_ret' = TwoReturned("run", v, "panic")
                /\ two_vcpus' = IF l THEN two_vcpus ELSE flagged
           ELSE LET t == two_vcpus[two_cur][1] IN
                IF \/ ~t.configured
                   \/ l /\ t.launch_state # "launched"
                   \/ ~l /\ t.launch_state # "clear"
                THEN /\ two_ret' = TwoReturned("run", v, "panic")
                     /\ two_vcpus' = flagged
                ELSE /\ two_ret' = TwoReturned("run", v,
                                     IF two_cur = v THEN "Ok"
                                     ELSE "ran the other guest")
                     /\ two_vcpus' = [flagged EXCEPT
                                        ![two_cur][1].launch_state =
                                            "launched"]

InitTwo ==
    /\ two_vcpus = [v \in VcpuIds |-> <<>>]
    /\ two_cur = "invalid"
    /\ two_ret = TwoReturned("none", "A", "Ok")
    /\ IdleVcpuVars /\ IdleCpuVars /\ IdleFrameVars /\ IdleExitVars
    /\ IdleMemVars /\ IdleTimerVars /\ IdleDecVars /\ IdleCtxVars
    /\ IdleWsVars /\ IdleCrVars /\ IdleSvmVars /\ IdlePtVars

NextTwo ==
    \/ \E v \in VcpuIds : TwoNew(v)
    \/ \E v \in VcpuIds : TwoSetEntry(v)
    \/ \E v \in VcpuIds : TwoSetEptRoot(v)
    \/ \E v \in VcpuIds, has_ctx \in BOOLEAN : TwoSetup(v, has_ctx)
    \/ \E v \in VcpuIds : TwoBind(v)
    \/ \E v \in VcpuIds : TwoUnbind(v)
    \/ \E v \in VcpuIds : TwoRun(v)

SpecTwo == InitTwo /\ [][NextTwo]_vars

\* C26: while a vCPU is bound its VMCS stays the current one whatever is
\* done to another vCPU on the same logical CPU: new(), setup() and
\* setup_from_context() of the other vCPU leave it current; and when setup()
\* of a vCPU returns, Ok or Err, that vCPU is not left bound.
C26_OtherVcpuStaysBound ==
    [][/\ (/\ two_ret'.op \in {"new", "setup", "setup_from_context"}
           /\ two_cur \in VcpuIds /\ two_cur # two_ret'.vcpu)
            => two_cur' = two_cur
       /\ (two_ret'.op \in {"setup", "setup_from_context"}
             /\ two_ret'.val # "panic")
            => two_cur' # two_ret'.vcpu]_vars

(***************************************************************************)
(* The CR_ACCESS exit: handle_cr and set_cr.  A control register in the    *)
(* VMCS is the set of its flags; a register value is <<w3, w2, w1, w0>>.   *)
(***************************************************************************)
MaxCrRip == 5

VM_EXIT_INSTR_LEN_MV_TO_CR == 3

\* Bit i (0..63) of a 64-bit value.
Bit64(val, i) == WordBit(val[4 - (i \div 16)], i % 16)

Cr0Flags == {"PE", "NE", "NW", "CD", "PG"}
Cr4Flags == {"PAE", "VMXE"}

BitOf(flag) ==
    CASE flag = "PE" -> 0 [] flag = "NE" -> 5 [] flag = "NW" -> 29
      [] flag = "CD" -> 30 [] flag = "PG" -> 31
      [] flag = "PAE" -> 5 [] flag = "VMXE" -> 13

\* Cr0Flags::from_bits_truncate, Cr4Flags::from_bits_truncate
from_bits_truncate(flags, val) == {f \in flags : Bit64(val, BitOf(f)) = 1}

\* The bits of a set of CR0 flags, as a 64-bit value.
Cr0Value(s) ==
    <<0, 0,
      (IF "NW" \in s THEN 8192 ELSE 0) + (IF "CD" \in s THEN 16384 ELSE 0)
          + (IF "PG" \in s THEN 32768 ELSE 0),
      (IF "PE" \in s THEN 1 ELSE 0) + (IF "NE" \in s THEN 32 ELSE 0)>>

\* The capability MSRs of the logical CPU.
IA32_VMX_CR0_FIXED0 == {"PE", "NE", "PG"}
IA32_VMX_CR0_FIXED1 == Cr0Flags
IA32_VMX_CR4_FIXED0 == {"VMXE"}
IA32_VMX_CR4_FIXED1 == Cr4Flags

\* vmcs::update_efer: the guest's EFER.LMA is EFER.LME and CR0.PG.
update_efer(vm) ==
    [vm EXCEPT !.efer = IF "LME" \in vm.efer /\ "PG" \in vm.cr0
                        THEN vm.efer \cup {"LMA"} ELSE vm.efer \ {"LMA"}]

\* set_cr for CR0 and CR4 (CR3 does not come from handle_cr).
set_cr(vm, cr_idx, val) ==
    IF cr_idx = 0
    THEN LET must0 == IA32_VMX_CR0_FIXED1 \ {"NW", "CD"}
             must1 == IA32_VMX_CR0_FIXED0 \ {"PG", "PE"}
         IN  [vm EXCEPT
                !.cr0 = (from_bits_truncate(Cr0Flags, val) \cap must0)
                           \cup must1,
                !.cr0_read_shadow = val,
                !.cr0_mask = must1 \cup (Cr0Flags \ must0)]
    ELSE LET must0 == IA32_VMX_CR4_FIXED1
             must1 == IA32_VMX_CR4_FIXED0
             v == <<val[1], val[2], val[3], WithBit(val[4], 13, TRUE)>>
         IN  [vm EXCEPT
                !.cr4 = (from_bits_truncate(Cr4Flags, v) \cap must0)
                           \cup must1,
                !.cr4_read_shadow = v]

\* handle_cr on the VMCS and guest_regs: the outcome and the VMCS after it.
handle_cr(vm, regs, access_type, cr, reg) ==
    LET got == IF reg = 4 THEN [kind |-> "Ok", value |-> vm.rsp]
               ELSE get_reg_of_index(regs, reg)
        val == got.value
        advanced == [vm EXCEPT !.rip = @ + VM_EXIT_INSTR_LEN_MV_TO_CR]
        written == set_cr(advanced, cr, val)
    IN  IF access_type = 0 /\ got.kind = "Ok" /\ cr \in {0, 4}
        THEN [kind |-> "Ok",
              vm |-> IF cr = 0 /\ "PG" \in from_bits_truncate(Cr0Flags, val)
                     THEN update_efer(written) ELSE written]
        ELSE [kind |-> "panic", vm |-> vm]

NotCrVars == <<oldVars, wsVars, twoVars, svmVars, ptVars>>

CrRunning == cr_ret.kind # "panic"

\* The guest computes: RAX, RSP and RIP become what it wants.
CrGuestRuns(rax, rsp, rip) ==
    /\ UNCHANGED NotCrVars /\ CrRunning
    /\ cr_regs' = [cr_regs EXCEPT !["rax"] = rax]
    /\ cr_vmcs' = [cr_vmcs EXCEPT !.rsp = rsp, !.rip = rip]
    /\ cr_ret' = [op |-> "guest", kind |-> "Ok", cr |-> 0, reg |-> 0]

\* The guest writes EFER.LME, which it may do while paging is off.
CrGuestSetsLme(on) ==
    /\ UNCHANGED NotCrVars /\ CrRunning
    /\ "PG" \notin cr_vmcs.cr0
    /\ cr_vmcs' = [cr_vmcs EXCEPT !.efer =
                      IF on THEN @ \cup {"LME"} ELSE @ \ {"LME"}]
    /\ cr_ret' = [op |-> "guest", kind |-> "Ok", cr |-> 0, reg |-> 0]
    /\ UNCHANGED cr_regs

\* A CR_ACCESS exit with the given exit qualification.
ExitCrAccess(access_type, cr, reg) ==
    /\ UNCHANGED NotCrVars /\ CrRunning
    /\ cr_vmcs.rip + VM_EXIT_INSTR_LEN_MV_TO_CR <= MaxCrRip
    /\ LET h == handle_cr(cr_vmcs, cr_regs, access_type, cr, reg)
       IN  /\ cr_vmcs' = h.vm
           /\ cr_ret' = [op |-> IF access_type = 0 THEN "mov_to_cr"
                                ELSE "mov_from_cr",
                         kind |-> h.kind, cr |-> cr, reg |-> reg]
    /\ UNCHANGED cr_regs

Cr0Samples ==
    {Cr0Value(s) : s \in {{}, {"PE", "NE"}, {"PE", "NE", "PG"},
                          {"PE", "PG", "CD"}}}

\* A guest in protected mode without paging, as setup_vmcs_guest leaves it.
InitCr ==
    /\ cr_regs = [r \in GprNames |-> Cr0Value({"PE", "NE", "PG"})]
    /\ cr_vmcs = [rip |-> 0, rsp |-> Zero64, cr0 |-> {"PE", "NE"},
                  cr0_read_shadow |-> Cr0Value({"PE", "NE"}),
                  cr0_mask |-> {"NE", "NW", "CD"},
                  cr4 |-> {"VMXE"}, cr4_read_shadow |-> Zero64,
                  efer |-> {}]
    /\ cr_ret = [op |-> "setup", kind |-> "Ok", cr |-> 0, reg |-> 0]
    /\ IdleVcpuVars /\ IdleCpuVars /\ IdleFrameVars /\ IdleExitVars
    /\ IdleMemVars /\ IdleTimerVars /\ IdleDecVars /\ IdleCtxVars
    /\ IdleWsVars /\ IdleTwoVars /\ IdleSvmVars /\ IdlePtVars

NextCr ==
    \/ \E rax \in Cr0Samples, rsp \in Cr0Samples, rip \in 0..1 :
          CrGuestRuns(rax, rsp, rip)
    \/ \E on \in BOOLEAN : CrGuestSetsLme(on)
    \/ \E access_type \in 0..1, cr \in {0, 3, 4}, reg \in {0, 4, 8} :
          ExitCrAccess(access_type, cr, reg)

SpecCr == InitCr /\ [][NextCr]_vars

\* The value a MOV to CR from the register reg asks for.
Requested(reg) ==
    IF reg = 4 THEN cr_vmcs.rsp ELSE cr_regs[RegisterOfIndex[reg + 1]]

\* C27: on a CR_ACCESS exit for MOV to CR0 from a register (RSP included)
\* the handler writes the guest CR0 forced to the fixed bits (PE and PG,
\* which an unrestricted guest chooses, left aside), stores the requested
\* value in the read shadow, advances RIP by 3, refreshes EFER.LMA whenever
\* the write toggles CR0.PG, from 0 to 1 or from 1 to 0, and does not touch
\* EFER when PG stays as it is.
C27_MovToCr0 ==
    [][(cr_ret'.op = "mov_to_cr" /\ cr_ret'.cr = 0 /\ cr_ret' # cr_ret)
        => LET val == Requested(cr_ret'.reg)
               toggles == ("PG" \in from_bits_truncate(Cr0Flags, val))
                             # ("PG" \in cr_vmcs.cr0)
           IN  /\ cr_ret'.kind = "Ok"
               /\ IA32_VMX_CR0_FIXED0 \ {"PE", "PG"} \subseteq cr_vmcs'.cr0
               /\ cr_vmcs'.cr0 \subseteq IA32_VMX_CR0_FIXED1
               /\ cr_vmcs'.cr0_read_shadow = val
               /\ cr_vmcs'.rip = cr_vmcs.rip + 3
               /\ IF toggles
                  THEN ("LMA" \in cr_vmcs'.efer)
                          <=> ("LME" \in cr_vmcs.efer /\ "PG" \in cr_vmcs'.cr0)
                  ELSE cr_vmcs'.efer = cr_vmcs.efer]_vars

(***************************************************************************)
(* SvmVcpu::svm_run with before_vmrun and after_vmrun.  The MSRs are those *)
(* VMLOAD loads from the VMCB and VMSAVE stores to it.                     *)
(***************************************************************************)
NumHostImages == 2
MaxMsrVal == 1

FsGsMsrs == {"IA32_FS_BASE", "IA32_GS_BASE", "IA32_KERNEL_GSBASE"}
SysenterMsrs == {"IA32_SYSENTER_CS", "IA32_SYSENTER_ESP", "IA32_SYSENTER_EIP"}
SyscallMsrs == {"IA32_STAR", "IA32_LSTAR", "IA32_CSTAR", "IA32_FMASK"}
VmLoadMsrs == FsGsMsrs \cup SysenterMsrs \cup SyscallMsrs

\* VmLoadSaveStates::save_fs_gs
save_fs_gs(states, msrs) == [m \in VmLoadMsrs |->
                               IF m \in FsGsMsrs THEN msrs[m] ELSE states[m]]

\* VmLoadSaveStates::load_fs_gs
load_fs_gs(states, msrs) == [m \in VmLoadMsrs |->
                               IF m \in FsGsMsrs THEN states[m] ELSE msrs[m]]

\* VMLOAD and VMSAVE
vmload(cp, vmcb) == [cp EXCEPT !.msrs = vmcb.msrs]

vmsave(cp, vmcb) == [vmcb EXCEPT !.msrs = cp.msrs]

\* before_vmrun, then VMRUN: the processor keeps the host's RAX in the host
\* save area, loads the guest's from the VMCB and sets GIF.
before_vmrun(cp, vc) ==
    LET vmcb1 == [vc.vmcb EXCEPT !.rax = vc.rax]
        states == save_fs_gs(vc.load_save_states, cp.msrs)
    IN  [cpu |-> vmload([cp EXCEPT !.gif = FALSE], vmcb1),
         vcpu |-> [vc EXCEPT !.vmcb = vmcb1, !.load_save_states = states],
         log |-> <<"clgi", "rax to vmcb", "save_fs_gs", "vmload">>]

\* #VMEXIT has stored the guest's RAX in the VMCB and cleared GIF; then
\* after_vmrun.
after_vmrun(cp, vc) ==
    LET vmcb1 == vmsave(cp, vc.vmcb)
        msrs == load_fs_gs(vc.load_save_states, cp.msrs)
    IN  [cpu |-> [cp EXCEPT !.msrs = msrs, !.gif = TRUE],
         vcpu |-> [vc EXCEPT !.vmcb = vmcb1, !.rax = vmcb1.rax],
         log |-> <<"vmsave", "load_fs_gs", "rax from vmcb", "stgi">>]

NotSvmVars == <<oldVars, wsVars, twoVars, crVars, ptVars>>

HostImage(k) ==
    [m \in VmLoadMsrs |->
        10 * k + (IF m \in FsGsMsrs THEN 1
                  ELSE IF m \in SysenterMsrs THEN 2 ELSE 3)]

\* The host runs between two calls: a context switch changes its MSRs.
SvmHostComputes(k) ==
    /\ UNCHANGED NotSvmVars
    /\ svm_pc = "host"
    /\ svm_cpu' = [svm_cpu EXCEPT !.msrs = HostImage(k)]
    /\ svm_log' = <<>>
    /\ UNCHANGED <<svm_vcpu, svm_pc, svm_pre>>

\* The hypervisor writes the guest's RAX, e.g. the result of a hypercall.
SvmSetRax(v) ==
    /\ UNCHANGED NotSvmVars
    /\ svm_pc = "host"
    /\ svm_vcpu' = [svm_vcpu EXCEPT !.rax = v]
    /\ svm_log' = <<>>
    /\ UNCHANGED <<svm_cpu, svm_pc, svm_pre>>

\* svm_run up to VMRUN.
SvmRunEntry ==
    /\ UNCHANGED NotSvmVars
    /\ svm_pc = "host"
    /\ LET b == before_vmrun(svm_cpu, svm_vcpu)
       IN  /\ svm_cpu' = [b.cpu EXCEPT !.rax = b.vcpu.vmcb.rax, !.gif = TRUE]
           /\ svm_vcpu' = b.vcpu
           /\ svm_log' = b.log \o <<"vmrun">>
    /\ svm_pre' = svm_cpu.msrs
    /\ svm_pc' = "guest"

\* The guest computes in RAX and writes MSRs it owns.
SvmGuestRuns(m, v) ==
    /\ UNCHANGED NotSvmVars
    /\ svm_pc = "guest"
    /\ svm_cpu' = IF m = "rax" THEN [svm_cpu EXCEPT !.rax = v]
                  ELSE [svm_cpu EXCEPT !.msrs[m] = v]
    /\ UNCHANGED <<svm_vcpu, svm_pc, svm_log, svm_pre>>

\* #VMEXIT and svm_run from there to its return.
SvmVmExit ==
    /\ UNCHANGED NotSvmVars
    /\ svm_pc = "guest"
    /\ LET exited == [svm_vcpu EXCEPT !.vmcb.rax = svm_cpu.rax]
           a == after_vmrun([svm_cpu EXCEPT !.gif = FALSE], exited)
       IN  /\ svm_cpu' = a.cpu
           /\ svm_vcpu' = a.vcpu
           /\ svm_log' = svm_log \o a.log
    /\ svm_pc' = "host"
    /\ UNCHANGED svm_pre

GuestWritten == {"rax", "IA32_FS_BASE", "IA32_LSTAR"}

\* After SvmVcpu::new and setup: the guest's MSRs in the VMCB are zero.
InitSvm ==
    /\ svm_cpu = [gif |-> TRUE, rax |-> 0, msrs |-> HostImage(1)]
    /\ svm_vcpu = [load_save_states |-> [m \in VmLoadMsrs |-> 0], rax |-> 0,
                   vmcb |-> [rax |-> 0, msrs |-> [m \in VmLoadMsrs |-> 0]]]
    /\ svm_pc = "host"
    /\ svm_log = <<>>
    /\ svm_pre = svm_cpu.msrs
    /\ IdleVcpuVars /\ IdleCpuVars /\ IdleFrameVars /\ IdleExitVars
    /\ IdleMemVars /\ IdleTimerVars /\ IdleDecVars /\ IdleCtxVars
    /\ IdleWsVars /\ IdleTwoVars /\ IdleCrVars /\ IdlePtVars

NextSvm ==
    \/ \E k \in 1..NumHostImages : SvmHostComputes(k)
    \/ \E v \in 0..MaxMsrVal : SvmSetRax(v)
    \/ SvmRunEntry
    \/ \E m \in GuestWritten, v \in 0..MaxMsrVal : SvmGuestRuns(m, v)
    \/ SvmVmExit

SpecSvm == InitSvm /\ [][NextSvm]_vars

\* C28: svm_run does CLGI, the save of the host's FS/GS/KERNEL_GS_BASE and
\* SYSENTER/SYSCALL MSRs, VMLOAD, VMRUN, VMSAVE, the restore of the host's
\* MSRs and STGI in this order; the host's MSRs are after the run what they
\* were before it; the guest's RAX goes from guest_regs to the VMCB before
\* VMRUN and from the VMCB to guest_regs after it.
C28_SvmRunBrackets ==
    [][/\ (svm_pc = "host" /\ svm_pc' = "guest")
            => /\ svm_vcpu'.vmcb.rax = svm_vcpu.rax
               /\ svm_log' = <<"clgi", "rax to vmcb", "save_fs_gs", "vmload",
                               "vmrun">>
       /\ (svm_pc = "guest" /\ svm_pc' = "host")
            => /\ svm_vcpu'.rax = svm_cpu.rax
               /\ svm_log' = <<"clgi", "rax to vmcb", "save_fs_gs", "vmload",
                               "vmrun", "vmsave", "load_fs_gs",
                               "rax from vmcb", "stgi">>
               /\ svm_cpu'.gif
               /\ svm_cpu'.msrs = svm_pre]_vars

(***************************************************************************)
(* GuestPageTable64: query and get_entry over the guest's page tables.     *)
(* A virtual address is the set of its set bits; a table is addressed by   *)
(* its guest-physical address 1..NumTables and has entries at indices 0    *)
(* and 1, every other entry being zero; an entry is its present and huge   *)
(* bits, its address and whether any other bit is set.                     *)
(***************************************************************************)
NumTables == 4

ENTRY_COUNT == 512

Tables == 1..NumTables

RECURSIVE SumPow(_)
SumPow(s) == IF s = {} THEN 0
             ELSE LET i == CHOOSE i \in s : TRUE IN 2 ^ i + SumPow(s \ {i})

\* (vaddr >> off) & mask, mask of the form 2^n - 1
ShiftMask(vaddr, off, mask) ==
    SumPow({i \in 0..15 : 2 ^ i <= mask /\ (off + i) \in vaddr})

p5_index(vaddr) == ShiftMask(vaddr, 12 + 36, ENTRY_COUNT - 1)
p4_index(vaddr) == ShiftMask(vaddr, 12 + 27, ENTRY_COUNT - 1)
p3_index(vaddr) == ShiftMask(vaddr, 12 + 18, ENTRY_COUNT - 1)
p2_index(vaddr) == ShiftMask(vaddr, 12 + 9, ENTRY_COUNT - 1)
p1_index(vaddr) == ShiftMask(vaddr, 12, ENTRY_COUNT - 1)

ZeroEntry == [present |-> FALSE, huge |-> FALSE, paddr |-> 0, other |-> FALSE]

\* GenericPTE of X64PTE: is_unused is bits == 0.
is_unused(e) == e = ZeroEntry
is_present(e) == e.present
is_huge(e) == e.huge

PtErr(kind, walk) ==
    [kind |-> kind, entry |-> ZeroEntry, size |-> "none", walk |-> walk]

\* table_of: the table at gpa, if the EPT translates gpa.  walk collects
\* the entries read, each with its table, index and value.
table_of(gpa) == gpa \in Tables /\ gpa \notin pt_unmapped

ReadEntry(gpa, index) ==
    [table |-> gpa, index |-> index,
     entry |-> IF index \in DOMAIN pt_tables[gpa] THEN pt_tables[gpa][index]
               ELSE ZeroEntry]

\* next_table: the outcome for an entry that is to lead to a table.
next_table(e) ==
    IF ~is_present(e) THEN "NotMapped"
    ELSE IF is_huge(e) THEN "MappedToHugePage"
    ELSE IF ~table_of(e.paddr) THEN "NotMapped"
    ELSE "Ok"

\* get_entry from the table p3 on, walk being what was read to get there.
get_entry_from_p3(p3, vaddr, walk) ==
    LET r3 == ReadEntry(p3, p3_index(vaddr))
        w3 == Append(walk, r3)
    IN  IF is_huge(r3.entry)
        THEN [kind |-> "Ok", entry |-> r3.entry, size |-> "Size1G", walk |-> w3]
        ELSE IF next_table(r3.entry) # "Ok"
        THEN PtErr(next_table(r3.entry), w3)
        ELSE LET r2 == ReadEntry(r3.entry.paddr, p2_index(vaddr))
                 w2 == Append(w3, r2)
             IN  IF is_huge(r2.entry)
                 THEN [kind |-> "Ok", entry |-> r2.entry, size |-> "Size2M",
                       walk |-> w2]
                 ELSE IF next_table(r2.entry) # "Ok"
                 THEN PtErr(next_table(r2.entry), w2)
                 ELSE LET r1 == ReadEntry(r2.entry.paddr, p1_index(vaddr))
                      IN  [kind |-> "Ok", entry |-> r1.entry,
                           size |-> "Size4K", walk |-> Append(w2, r1)]

\* get_entry from the table p4 on.
get_entry_from_p4(p4, vaddr, walk, five) ==
    LET r4 == ReadEntry(p4, p4_index(vaddr))
        w4 == Append(walk, r4)
    IN  IF five /\ is_huge(r4.entry) THEN PtErr("MappedToHugePage", w4)
        ELSE IF next_table(r4.entry) # "Ok"
        THEN PtErr(next_table(r4.entry), w4)
        ELSE get_entry_from_p3(r4.entry.paddr, vaddr, w4)

get_entry(root_paddr, levels, vaddr) ==
    IF ~table_of(root_paddr) THEN PtErr("NotMapped", <<>>)
    ELSE IF levels = 3 THEN get_entry_from_p3(root_paddr, vaddr, <<>>)
    ELSE IF levels = 4 THEN get_entry_from_p4(root_paddr, vaddr, <<>>, FALSE)
    ELSE \* 5-level paging
         LET r5 == ReadEntry(root_paddr, p5_index(vaddr))
             w5 == <<r5>>
         IN  IF is_huge(r5.entry) THEN PtErr("MappedToHugePage", w5)
             ELSE IF next_table(r5.entry) # "Ok"
             THEN PtErr(next_table(r5.entry), w5)
             ELSE get_entry_from_p4(r5.entry.paddr, vaddr, w5, TRUE)

\* PageSize::align_offset: the bits of vaddr below the page size.
SizeBits(size) ==
    CASE size = "Size4K" -> 12 [] size = "Size2M" -> 21
      [] size = "Size1G" -> 30 [] OTHER -> 0

size_align_offset(size, vaddr) == {b \in vaddr : b < SizeBits(size)}

\* GuestPageTable64::query
query(root_paddr, levels, vaddr) ==
    LET g == get_entry(root_paddr, levels, vaddr) IN
    IF g.kind # "Ok" THEN [g EXCEPT !.size = "none"] @@ [gpa |-> <<>>]
    ELSE IF is_unused(g.entry)
    THEN PtErr("NotMapped", g.walk) @@ [gpa |-> <<>>]
    ELSE g @@ [gpa |-> <<g.entry.paddr, size_align_offset(g.size, vaddr)>>]

\* The guest's CR3: the first of the tables.
RootPaddr == CHOOSE t \in Tables : \A u \in Tables : t <= u

NotPtVars == <<oldVars, wsVars, twoVars, crVars, svmVars>>

\* The entries a guest writes into table t: none, a present entry that
\* leads to the next address, the same entry swapped out (present clear,
\* the rest kept), a present huge page.
EntrySamples(t) ==
    {ZeroEntry,
     [present |-> TRUE, huge |-> FALSE, paddr |-> t + 1, other |-> TRUE],
     [present |-> FALSE, huge |-> FALSE, paddr |-> t + 1, other |-> TRUE],
     [present |-> TRUE, huge |-> TRUE, paddr |-> t + 1, other |-> TRUE]}

PtGuestWrites(t, i, e) ==
    /\ UNCHANGED NotPtVars
    /\ pt_tables' = [pt_tables EXCEPT ![t][i] = e]
    /\ pt_ret' = [op |-> "guest", level |-> pt_level, vaddr |-> {},
                  res |-> PtErr("none", <<>>) @@ [gpa |-> <<>>]]
    /\ UNCHANGED <<pt_level, pt_unmapped>>

\* The guest changes its paging mode: get_paging_level reports 0, 2, 3 or
\* 4; 5 is the LA57 level the reader also knows.
PtGuestSetsLevel(level) ==
    /\ UNCHANGED NotPtVars
    /\ pt_level' = level
    /\ pt_ret' = [op |-> "guest", level |-> level, vaddr |-> {},
                  res |-> PtErr("none", <<>>) @@ [gpa |-> <<>>]]
    /\ UNCHANGED <<pt_tables, pt_unmapped>>

\* The host unmaps or maps a guest-physical address in the EPT.
PtEptChanges(unmapped) ==
    /\ UNCHANGED NotPtVars
    /\ pt_unmapped' = unmapped
    /\ pt_ret' = [op |-> "host", level |-> pt_level, vaddr |-> {},
                  res |-> PtErr("none", <<>>) @@ [gpa |-> <<>>]]
    /\ UNCHANGED <<pt_tables, pt_level>>

\* guest_page_table_query: construct with the level, then query.
PtQuery(vaddr) ==
    /\ UNCHANGED NotPtVars
    /\ pt_ret' = [op |-> "query", level |-> pt_level, vaddr |-> vaddr,
                  res |-> query(RootPaddr, pt_level, vaddr)]
    /\ UNCHANGED <<pt_tables, pt_level, pt_unmapped>>

PagingLevels == {0, 2, 3, 4, 5}

VaddrSamples == {{}, {0, 12}, {13, 21}, {22}, {5, 30}}

InitPt ==
    /\ pt_tables = [t \in Tables |-> [i \in 0..1 |-> ZeroEntry]]
    /\ pt_level = 4
    /\ pt_unmapped = {}
    /\ pt_ret = [op |-> "new", level |-> 4, vaddr |-> {},
                 res |-> PtErr("none", <<>>) @@ [gpa |-> <<>>]]
    /\ IdleVcpuVars /\ IdleCpuVars /\ IdleFrameVars /\ IdleExitVars
    /\ IdleMemVars /\ IdleTimerVars /\ IdleDecVars /\ IdleCtxVars
    /\ IdleWsVars /\ IdleTwoVars /\ IdleCrVars /\ IdleSvmVars

NextPt ==
    \/ \E t \in Tables : \E e \in EntrySamples(t) : PtGuestWrites(t, 0, e)
    \/ \E level \in PagingLevels : PtGuestSetsLevel(level)
    \/ \E unmapped \in {{}, {3}} : PtEptChanges(unmapped)
    \/ \E vaddr \in VaddrSamples : PtQuery(vaddr)

SpecPt == InitPt /\ [][NextPt]_vars

\* The walk of the last query read an entry whose present bit is clear.
ReadNotPresent ==
    \E k \in 1..Len(pt_ret.res.walk) : ~pt_ret.res.walk[k].entry.present

\* C29: query returns Err(NotMapped) whenever an entry of the walk, the
\* final one included, has its present bit clear or a table address is not
\* translated by the EPT, and Ok only for a present mapping, with the
\* address of the entry plus vaddr mod size and the size of the level at
\* which the walk ended.  Stated for the levels 3, 4 and 5.
C29_QueryNotMapped ==
    (pt_ret.op = "query" /\ pt_ret.level \in {3, 4, 5}) =>
        LET r == pt_ret.res IN
        /\ ReadNotPresent => r.kind = "NotMapped"
        /\ r.kind = "Ok" =>
              /\ r.entry.present
              /\ r.gpa = <<r.entry.paddr,
                           {b \in pt_ret.vaddr : b < SizeBits(r.size)}>>
              /\ r.size = IF ~r.entry.huge THEN "Size4K"
                          ELSE IF Len(r.walk) = pt_ret.level - 2
                          THEN "Size1G" ELSE "Size2M"

\* The index the paging level takes from vaddr at depth k of the walk
\* (1 is the root table).
LevelIndex(level, vaddr, k) ==
    IF level = 2 THEN ShiftMask(vaddr, 12 + 10 * (2 - k), 1023)
    ELSE ShiftMask(vaddr, 12 + 9 * (level - k), 511)

\* C30: the reader handles the levels 0, 2, 3, 4 and 5 as these levels:
\* level 0 reads no table, level 2 walks two levels with 10-bit indices at
\* the offsets 12 and 22, the levels 3, 4 and 5 walk that many levels with
\* 9-bit indices at the offsets 12, 21, 30, 39 and 48, and the number of
\* tables read never exceeds the level.
C30_WalkFollowsLevel ==
    pt_ret.op = "query" =>
        LET w == pt_ret.res.walk IN
        /\ Len(w) <= pt_ret.level
        /\ \A k \in 1..Len(w) :
              w[k].index = LevelIndex(pt_ret.level, pt_ret.vaddr, k)

=============================================================================
